---------------------------- MODULE Spec2Model ----------------------------
(***************************************************************************)
(* Model of src/boosting/backprop_cuda.cu: the CUDA backpropagation        *)
(* trainer.  The module holds three state machines over one variable list: *)
(*                                                                         *)
(*   SpecLaunch  train_examples_kernel: the per-group dispatch loops       *)
(*   SpecKernel  train_N_examples: the threads of one group, barrier by    *)
(*               barrier                                                   *)
(*   SpecHost    Backprop::Plan, Backprop::Context, execute, synchronize   *)
(*                                                                         *)
(* Each machine leaves the variables of the others at their idle values.   *)
(***************************************************************************)
EXTENDS Integers, Sequences, FiniteSets, TLC

VARIABLES
    \* ---- train_examples_kernel (launcher) ----
    total_num_examples,   \* kernel argument: number of examples of the batch
    examples_per_block,   \* kernel argument
    grid_size,            \* number of thread groups of the launch
    unsigned_bits,        \* width of the kernel's `unsigned` values
    lpc,                  \* group -> "start"|"loop8"|"loop4"|"loop1"|"done"
    example_num,          \* group -> the loop variable (unsigned)
    last_example,         \* group -> end of the group's chunk (unsigned)
    calls,                \* the train_N_examples calls made: <<group, N, first>>
    \* ---- train_N_examples (one group, one call) ----
    kcfg,                 \* the call: architecture, w_strides, N, activation, ...
    th,                   \* thread -> its registers and its place in the routine
    scratch,              \* shared scratch, cell x * max_width + c
    layer_outputs,        \* the group's activation log, cell x * total_neurons + c
    w_updates,            \* layer -> weight-gradient accumulator
    b_updates,            \* layer -> bias-gradient accumulator
    sh_reads,             \* <<thread, cell>> read from scratch since the last barrier
    sh_writes,            \* <<thread, cell>> written to scratch since the last barrier
    \* ---- Backprop::Plan, Backprop::Context and the device ----
    plans,                \* the Plans constructed so far
    weights_tex,          \* the global texture reference: the Plan whose
    biases_tex,           \*   buffer it is bound to, 0 while unbound
    contexts,             \* the Contexts constructed so far, each with its launch
    dev_error,            \* the execution error the device holds
    event                 \* the last call of the host and its outcome

launchVars == <<total_num_examples, examples_per_block, grid_size, unsigned_bits,
                lpc, example_num, last_example, calls>>

kernelVars == <<kcfg, th, scratch, layer_outputs, w_updates, b_updates,
                sh_reads, sh_writes>>

hostVars == <<plans, weights_tex, biases_tex, contexts, dev_error, event>>

vars == <<launchVars, kernelVars, hostVars>>

(***************************************************************************)
(* Bounds of the model and constants of the program.                       *)
(***************************************************************************)
MaxExamples == 20        \* largest batch explored by the launcher
MaxExampleNum == 64      \* the full-width launcher is followed up to this index
LiveWordBits == 6        \* unsigned width of the scaled launcher (liveness)

UnsignedBits == 32                   \* width of `unsigned` on the device
NumExamplesPerInvocation == 4        \* Context: num_examples_per_invocation
FormerExamplesPerInvocation == 16    \* the value the source keeps in a comment

Min(a, b) == IF a <= b THEN a ELSE b
Max(a, b) == IF a >= b THEN a ELSE b

\* rudiv(a, b): a / b rounded up (math/xdiv.h), as Context uses it.
rudiv(a, b) == (a + b - 1) \div b

MaxGroups == rudiv(MaxExamples, NumExamplesPerInvocation)
GroupIds == 0 .. (MaxGroups - 1)
Groups == 0 .. (grid_size - 1)

ExamplesPerBlock == {NumExamplesPerInvocation, FormerExamplesPerInvocation}

(***************************************************************************)
(* train_examples_kernel                                                   *)
(***************************************************************************)

\* unsigned arithmetic of the kernel.  An unsigned value u of width w is held
\* as the integer with the same bits: u below 2^(w-1), u - 2^w from there on
\* (the model checker's integers are themselves 32 bits wide, so at full width
\* every integer it can hold is its own representative).
UWrap(x) ==
    IF unsigned_bits = UnsignedBits THEN x
    ELSE ((x + 2^(unsigned_bits - 1)) % 2^unsigned_bits) - 2^(unsigned_bits - 1)
USub(a, b) == UWrap(a - b)
UAdd(a, b) == UWrap(a + b)
UMul(a, b) == UWrap(a * b)
\* a < b on unsigned values
ULess(a, b) == IF (a < 0) = (b < 0) THEN a < b ELSE a >= 0
UMin(a, b) == IF ULess(b, a) THEN b ELSE a

\* example_num_base = block_num * examples_per_block
ExampleNumBase(g) == UMul(g, examples_per_block)

\* Mutant: the end of the chunk not cut at the end of the batch.
LastExampleUncut(g) == UAdd(ExampleNumBase(g), examples_per_block)

\* last_example = min(total_num_examples, example_num_base + examples_per_block)
LastExample(g) ==
    UMin(total_num_examples, UAdd(ExampleNumBase(g), examples_per_block))

\* The loop conditions, as written: example_num < last_example - 7, etc.
Loop8Cond(g) == ULess(example_num[g], USub(last_example[g], 7))
Loop4Cond(g) == ULess(example_num[g], USub(last_example[g], 3))
Loop1Cond(g) == ULess(example_num[g], last_example[g])

\* The full-width launcher is followed while its loop variable is below
\* MaxExampleNum; the scaled launcher is finite and needs no cap.
Followed(g) ==
    (unsigned_bits = UnsignedBits) => ULess(example_num[g], MaxExampleNum)

KernelStart(g) ==
    /\ g \in Groups
    /\ lpc[g] = "start"
    /\ example_num' = [example_num EXCEPT ![g] = ExampleNumBase(g)]
    /\ last_example' = [last_example EXCEPT ![g] = LastExample(g)]
    /\ lpc' = [lpc EXCEPT ![g] = "loop8"]
    /\ UNCHANGED <<total_num_examples, examples_per_block, grid_size,
                   unsigned_bits, calls>>
    /\ UNCHANGED <<kernelVars, hostVars>>

\* One iteration of a dispatch loop: the call of train_N_examples<N> and the
\* increment of example_num.
Dispatch(g, N) ==
    /\ calls' = calls \cup {<<g, N, example_num[g]>>}
    /\ example_num' = [example_num EXCEPT ![g] = UAdd(example_num[g], N)]
    /\ UNCHANGED <<total_num_examples, examples_per_block, grid_size,
                   unsigned_bits, lpc, last_example>>
    /\ UNCHANGED <<kernelVars, hostVars>>

LeaveLoop(g, next) ==
    /\ lpc' = [lpc EXCEPT ![g] = next]
    /\ UNCHANGED <<total_num_examples, examples_per_block, grid_size,
                   unsigned_bits, example_num, last_example, calls>>
    /\ UNCHANGED <<kernelVars, hostVars>>

Dispatch8(g) ==
    /\ g \in Groups /\ lpc[g] = "loop8" /\ Loop8Cond(g) /\ Followed(g)
    /\ Dispatch(g, 8)

Exit8(g) ==
    /\ g \in Groups /\ lpc[g] = "loop8" /\ ~Loop8Cond(g)
    /\ LeaveLoop(g, "loop4")

Dispatch4(g) ==
    /\ g \in Groups /\ lpc[g] = "loop4" /\ Loop4Cond(g) /\ Followed(g)
    /\ Dispatch(g, 4)

Exit4(g) ==
    /\ g \in Groups /\ lpc[g] = "loop4" /\ ~Loop4Cond(g)
    /\ LeaveLoop(g, "loop1")

Dispatch1(g) ==
    /\ g \in Groups /\ lpc[g] = "loop1" /\ Loop1Cond(g) /\ Followed(g)
    /\ Dispatch(g, 1)

Exit1(g) ==
    /\ g \in Groups /\ lpc[g] = "loop1" /\ ~Loop1Cond(g)
    /\ LeaveLoop(g, "done")

GroupStep(g) ==
    \/ KernelStart(g)
    \/ Dispatch8(g)
    \/ Exit8(g)
    \/ Dispatch4(g)
    \/ Exit4(g)
    \/ Dispatch1(g)
    \/ Exit1(g)

\* The launch: Context::Context computes the grid, Context::execute passes
\* num_examples_per_invocation and num_feature_vectors to the kernel.
LaunchInit(n, epb, bits) ==
    /\ total_num_examples = n
    /\ examples_per_block = epb
    /\ grid_size = rudiv(n, epb)
    /\ unsigned_bits = bits
    /\ lpc = [g \in GroupIds |-> "start"]
    /\ example_num = [g \in GroupIds |-> 0]
    /\ last_example = [g \in GroupIds |-> 0]
    /\ calls = {}

\* The idle values of the launcher's variables.
LaunchIdle ==
    /\ total_num_examples = 0
    /\ examples_per_block = 0
    /\ grid_size = 0
    /\ unsigned_bits = UnsignedBits
    /\ lpc = [g \in GroupIds |-> "done"]
    /\ example_num = [g \in GroupIds |-> 0]
    /\ last_example = [g \in GroupIds |-> 0]
    /\ calls = {}

\* The idle values of the training routine's variables.
KernelIdle ==
    /\ kcfg = <<>>
    /\ th = <<>>
    /\ scratch = <<>>
    /\ layer_outputs = <<>>
    /\ w_updates = <<>>
    /\ b_updates = <<>>
    /\ sh_reads = {}
    /\ sh_writes = {}

\* The idle values of the host's variables: nothing constructed.
HostIdle ==
    /\ plans = <<>>
    /\ weights_tex = 0
    /\ biases_tex = 0
    /\ contexts = <<>>
    /\ dev_error = "cudaSuccess"
    /\ event = <<"none">>

InitLaunch ==
    \E n \in 1 .. MaxExamples : \E epb \in ExamplesPerBlock :
        LaunchInit(n, epb, UnsignedBits) /\ KernelIdle /\ HostIdle

NextLaunch ==
    \/ \E g \in GroupIds : KernelStart(g)
    \/ \E g \in GroupIds : Dispatch8(g)
    \/ \E g \in GroupIds : Exit8(g)
    \/ \E g \in GroupIds : Dispatch4(g)
    \/ \E g \in GroupIds : Exit4(g)
    \/ \E g \in GroupIds : Dispatch1(g)
    \/ \E g \in GroupIds : Exit1(g)

SpecLaunch == InitLaunch /\ [][NextLaunch]_vars

\* The same launcher with the unsigned width scaled to LiveWordBits, so that
\* the wrap-around of example_num is within reach; every group is scheduled.
InitLaunchScaled ==
    \E n \in 1 .. MaxExamples : \E epb \in ExamplesPerBlock :
        LaunchInit(n, epb, LiveWordBits) /\ KernelIdle /\ HostIdle

FairLaunch ==
    /\ InitLaunchScaled
    /\ [][NextLaunch]_vars
    /\ \A g \in GroupIds : WF_vars(GroupStep(g))


(***************************************************************************)
(* train_N_examples: the threads of one group in one call.                 *)
(*                                                                         *)
(* Floating-point values are modelled by integers.  A thread's place is    *)
(* named after the source line it is about to execute (S155, S213, ...);   *)
(* at a place Bnnn it waits in the __syncthreads() of line nnn.            *)
(***************************************************************************)
KernelSeeds == 2         \* number of data sets explored per architecture

\* Architectures explored: layer widths, input layer first.
Archs == {<<2, 2>>, <<1, 2>>, <<2, 1>>, <<3, 2>>, <<2, 1, 1>>, <<2, 3, 2>>}
\* The batch sizes N the launcher instantiates train_N_examples with.
BatchSizes == {1, 4, 8}
Activations == {"ACT_TANH", "ACT_IDENTITY", "ACT_LOGSIG"}

num_layers == Len(kcfg.architecture) - 1
architecture(l) == kcfg.architecture[l + 1]
w_strides(l) == kcfg.w_strides[l + 1]

RECURSIVE SeqMax(_)
SeqMax(q) == IF q = <<>> THEN 0 ELSE Max(Head(q), SeqMax(Tail(q)))
RECURSIVE SeqSum(_)
SeqSum(q) == IF q = <<>> THEN 0 ELSE Head(q) + SeqSum(Tail(q))

\* The maximum taken over the output widths only, the input layer left out.
PlanMaxWidthOfOutputs(arch) == SeqMax(Tail(arch))

\* Plan: max_width and total_neurons over all num_layers + 1 widths.
PlanMaxWidth(arch) == SeqMax(arch)
PlanTotalNeurons(arch) == SeqSum(arch)

max_width == PlanMaxWidth(kcfg.architecture)
total_neurons == PlanTotalNeurons(kcfg.architecture)
scratch_stride == max_width
input_stride == architecture(0)
Threads == 0 .. (max_width - 1)
XS == 0 .. (kcfg.N - 1)
Zero == [x \in XS |-> 0]

\* The data of the call: small integers chosen by the seed.
Small(k) == (k % 3) - 1
Input(k) == Small(k + kcfg.seed + 1)
Labels(x) == (x + kcfg.seed) % architecture(num_layers)
ExampleWeights(x) ==
    IF kcfg.zero = "weight" /\ x % 2 = 0 THEN 0 ELSE 1 + ((x + kcfg.seed) % 2)
DWeights(k) == Small(2 * k + kcfg.seed)
DBiases(k) == Small(k + 2 * kcfg.seed)
fire == 1
inhibit == -1
learning_rate == IF kcfg.zero = "rate" THEN 0 ELSE 1 + kcfg.seed

\* Lines 1309-1313: a call is handed the arrays advanced to its first example,
\* so its example x is example example_num + x of the batch.
ExampleOf(x) == kcfg.example_num + x

\* tanh rounded to the nearest integer.
tanh(x) == IF x > 0 THEN 1 ELSE IF x < 0 THEN -1 ELSE 0

transform(input, activation) ==
    CASE activation = "ACT_TANH" -> tanh(input)
      [] activation = "ACT_IDENTITY" -> input
      [] OTHER -> 0

\* Mutant: the error passed on without the derivative of tanh.
deltaWithoutDerivative(output, error, activation) ==
    CASE activation = "ACT_TANH" -> error
      [] activation = "ACT_IDENTITY" -> output * error
      [] OTHER -> 0

\* Mutant: the identity kind passing the error on as it is.
deltaErrorOnly(output, error, activation) ==
    CASE activation = "ACT_TANH" -> (1 - output * output) * error
      [] activation = "ACT_IDENTITY" -> error
      [] OTHER -> 0

delta(output, error, activation) ==
    CASE activation = "ACT_TANH" -> (1 - output * output) * error
      [] activation = "ACT_IDENTITY" -> output * error
      [] OTHER -> 0

\* WeightsAccess::operator[]: direct memory when base is set, else the texture.
NullPtr == <<>>
TexFetch(tex, k) == IF k \in DOMAIN tex THEN tex[k] ELSE 0
WeightsAccess(base, tex, offset, ofs) ==
    IF base # NullPtr THEN base[offset + ofs] ELSE TexFetch(tex, offset + ofs)

\* The accessors of the call read the Plan's buffers directly.
LayerWeights(r, ofs) == DWeights(r.layer_weights + ofs)
LayerBiases(r, ofs) == DBiases(r.layer_biases + ofs)

\* The thread-to-output mapping of the forward pass (lines 198-206).
nt == max_width
min_threads(r) == nt \div r.no
left_over(r) == nt % r.no
max_threads(r) == min_threads(r) + (IF left_over(r) > 0 THEN 1 ELSE 0)
OutputOf(t, r) == t % r.no
\* Every thread given the sub-lane index 0.
IdxOfFirstLane(t, r) == 0
IdxOf(t, r) == t \div r.no
\* Every output given the same number of threads, the left-over ones ignored.
o_threadsWithoutLeftOver(t, r) == min_threads(r)
o_threads(t, r) == min_threads(r) + (IF OutputOf(t, r) < left_over(r) THEN 1 ELSE 0)

BarrierSites == {"B160", "B170", "B221", "B228", "B232", "B275", "B285",
                 "B290", "B320", "B329", "B348"}

\* A thread moves to a place; reaching a barrier counts.
Goto(r, site) ==
    [r EXCEPT !.pc = site,
              !.nbar = IF site \in BarrierSites THEN @ + 1 ELSE @]

Cell(x, c) == x * scratch_stride + c
CellsOf(c) == {Cell(x, c) : x \in XS}
\* scratch with cell (x, c) set to f[x] for every example x
WriteCells(c, f) ==
    [k \in DOMAIN scratch |->
        IF k % scratch_stride = c THEN f[k \div scratch_stride] ELSE scratch[k]]
LogCell(base, x, c) == base + x * total_neurons + c
WriteLog(base, c, f) ==
    [k \in DOMAIN layer_outputs |->
        IF \E x \in XS : k = LogCell(base, x, c)
        THEN f[CHOOSE x \in XS : k = LogCell(base, x, c)]
        ELSE layer_outputs[k]]
LogRead(base, x, c) == layer_outputs[LogCell(base, x, c)]

\* ---- FPROP ----

\* Lines 150-157: copy the inputs into shared memory.
LoadInputs(t) ==
    /\ th[t].pc = "S155"
    /\ scratch' = WriteCells(t, [x \in XS |->
                      IF t < th[t].ni THEN Input(ExampleOf(x) * input_stride + t)
                      ELSE 0])
    /\ sh_writes' = sh_writes \cup {<<t, k>> : k \in CellsOf(t)}
    /\ th' = [th EXCEPT ![t] = Goto(@, "B160")]
    /\ UNCHANGED <<launchVars, hostVars>>
    /\ UNCHANGED <<kcfg, layer_outputs, w_updates, b_updates, sh_reads>>

\* Where a thread goes once its partial dot product is complete (line 218).
AfterDot(r) == IF max_threads(r) > 1 THEN "B221" ELSE "S249"

\* Lines 175-211: the head of a forward layer, up to the first loop test of
\* line 213.
ForwardLayer(t, r, l) ==
    LET r1 == [r EXCEPT !.l = l,
                        !.ni = architecture(l),
                        !.no = architecture(l + 1),
                        !.w_stride = w_strides(l),
                        !.accum = Zero]
        r2 == [r1 EXCEPT !.i = IdxOf(t, r1)]
    IN  IF r2.i < r2.ni THEN Goto(r2, "S213") ELSE Goto(r2, AfterDot(r2))

\* Lines 213-216: one iteration of the partial dot product.
DotStep(t) ==
    LET r == th[t]
        o == OutputOf(t, r)
        weight == LayerWeights(r, r.i * r.w_stride + o)
        r1 == [r EXCEPT !.accum = [x \in XS |->
                             r.accum[x] + weight * scratch[Cell(x, r.i)]],
                        !.i = r.i + o_threads(t, r)]
    IN  /\ r.pc = "S213"
        /\ sh_reads' = sh_reads \cup {<<t, k>> : k \in CellsOf(r.i)}
        /\ th' = [th EXCEPT ![t] =
                     IF r1.i < r1.ni THEN r1 ELSE Goto(r1, AfterDot(r1))]
        /\ UNCHANGED <<launchVars, hostVars>>
        /\ UNCHANGED <<kcfg, scratch, layer_outputs, w_updates, b_updates,
                       sh_writes>>

\* Lines 223-226: the threads below no store the bias of their output.
BiasStore(t) ==
    LET r == th[t] IN
    /\ r.pc = "S223"
    /\ IF t < r.no
       THEN /\ scratch' = WriteCells(t, [x \in XS |-> LayerBiases(r, t)])
            /\ sh_writes' = sh_writes \cup {<<t, k>> : k \in CellsOf(t)}
       ELSE UNCHANGED <<scratch, sh_writes>>
    /\ th' = [th EXCEPT ![t] = Goto(r, "B228")]
    /\ UNCHANGED <<launchVars, hostVars>>
    /\ UNCHANGED <<kcfg, layer_outputs, w_updates, b_updates, sh_reads>>

\* Lines 232-235: round i of the serialized accumulation; the thread whose
\* sub-lane index is i adds its partial sum.
RoundStep(t) ==
    LET r == th[t]
        o == OutputOf(t, r)
    IN
    /\ r.pc = "S232"
    /\ IF r.i = IdxOf(t, r)
       THEN /\ scratch' = WriteCells(o, [x \in XS |->
                               scratch[Cell(x, o)] + r.accum[x]])
            /\ sh_reads' = sh_reads \cup {<<t, k>> : k \in CellsOf(o)}
            /\ sh_writes' = sh_writes \cup {<<t, k>> : k \in CellsOf(o)}
       ELSE UNCHANGED <<scratch, sh_reads, sh_writes>>
    /\ th' = [th EXCEPT ![t] = Goto(r, "B232")]
    /\ UNCHANGED <<launchVars, hostVars>>
    /\ UNCHANGED <<kcfg, layer_outputs, w_updates, b_updates>>

\* Lines 237-245: the threads below no apply the activation and log it.
OutputStore(t) ==
    LET r == th[t]
        out == [x \in XS |-> transform(scratch[Cell(x, t)], kcfg.activation)]
    IN
    /\ r.pc = "S237"
    /\ IF t < r.no
       THEN /\ scratch' = WriteCells(t, out)
            /\ layer_outputs' = WriteLog(r.this_layer_outputs, t, out)
            /\ sh_reads' = sh_reads \cup {<<t, k>> : k \in CellsOf(t)}
            /\ sh_writes' = sh_writes \cup {<<t, k>> : k \in CellsOf(t)}
       ELSE UNCHANGED <<scratch, layer_outputs, sh_reads, sh_writes>>
    /\ th' = [th EXCEPT ![t] = Goto(r, "B170")]
    /\ UNCHANGED <<launchVars, hostVars>>
    /\ UNCHANGED <<kcfg, w_updates, b_updates>>

\* Lines 247-257: a single thread per output; the output is stored without
\* waiting for the other threads.
SingleOutputStore(t) ==
    LET r == th[t]
        o == OutputOf(t, r)
        bias == LayerBiases(r, o)
        acc == [x \in XS |-> r.accum[x] + bias]
        out == [x \in XS |-> transform(acc[x], kcfg.activation)]
    IN
    /\ r.pc = "S249"
    /\ scratch' = WriteCells(o, out)
    /\ layer_outputs' = WriteLog(r.this_layer_outputs, o, out)
    /\ sh_writes' = sh_writes \cup {<<t, k>> : k \in CellsOf(o)}
    /\ th' = [th EXCEPT ![t] = Goto([r EXCEPT !.accum = acc], "B170")]
    /\ UNCHANGED <<launchVars, hostVars>>
    /\ UNCHANGED <<kcfg, w_updates, b_updates, sh_reads>>

\* ---- BPROP ----

\* The thread's own output read without retreating to the last layer.
ReadLastOutputWithoutRetreat(t) ==
    LET r == th[t] IN
    /\ r.pc = "S267"
    /\ sh_reads' = sh_reads \cup {<<t, k>> : k \in CellsOf(t)}
    /\ th' = [th EXCEPT ![t] = Goto(
                 [r EXCEPT !.last_output = [x \in XS |-> scratch[Cell(x, t)]]],
                 "B275")]
    /\ UNCHANGED <<launchVars, hostVars>>
    /\ UNCHANGED <<kcfg, scratch, layer_outputs, w_updates, b_updates, sh_writes>>

\* Lines 267-273: retreat to the last layer and read the thread's own output.
ReadLastOutput(t) ==
    LET r == th[t] IN
    /\ r.pc = "S267"
    /\ sh_reads' = sh_reads \cup {<<t, k>> : k \in CellsOf(t)}
    /\ th' = [th EXCEPT ![t] = Goto(
                 [r EXCEPT !.this_layer_outputs = @ - r.no,
                           !.layer_weights = @ - r.ni * r.w_stride,
                           !.last_output = [x \in XS |-> scratch[Cell(x, t)]]],
                 "B275")]
    /\ UNCHANGED <<launchVars, hostVars>>
    /\ UNCHANGED <<kcfg, scratch, layer_outputs, w_updates, b_updates, sh_writes>>

\* Lines 277-282: the error of the topmost layer.
\* Every thread wanting the inhibit value, the label ignored.
wantedInhibitOnly(x, t) == inhibit
wanted(x, t) == IF Labels(x) = t THEN fire ELSE inhibit

TopError(t) ==
    LET r == th[t] IN
    /\ r.pc = "S277"
    /\ scratch' = WriteCells(t, [x \in XS |->
                      IF t < r.no THEN wanted(ExampleOf(x), t) - r.last_output[x]
                      ELSE 0])
    /\ sh_writes' = sh_writes \cup {<<t, k>> : k \in CellsOf(t)}
    /\ th' = [th EXCEPT ![t] = Goto(r, "B285")]
    /\ UNCHANGED <<launchVars, hostVars>>
    /\ UNCHANGED <<kcfg, layer_outputs, w_updates, b_updates, sh_reads>>

\* Lines 294-302: the head of a backward layer.
BackwardLayer(r, l) ==
    Goto([r EXCEPT !.l = l,
                   !.ni = architecture(l),
                   !.no = architecture(l + 1),
                   !.w_stride = w_strides(l)], "S306")

\* Mutant: the early leave of line 355 taken before the broadcast.
AfterDeltaLeaveEarly(t, r) ==
    IF t >= r.no THEN "B290" ELSE IF r.l > 0 THEN "B320" ELSE "S355"

\* Where a thread goes after computing its delta (line 317).
AfterDelta(t, r) == IF r.l > 0 THEN "B320" ELSE "S355"

\* Lines 304-315: the delta of the thread's output.
DeltaStep(t) ==
    LET r == th[t]
        d == [x \in XS |->
                IF t >= r.no THEN 0
                ELSE delta(LogRead(r.this_layer_outputs, x, t),
                           scratch[Cell(x, t)], kcfg.activation)]
    IN
    /\ r.pc = "S306"
    /\ sh_reads' = sh_reads \cup {<<t, k>> : k \in CellsOf(t)}
    /\ th' = [th EXCEPT ![t] = Goto([r EXCEPT !.d = d], AfterDelta(t, r))]
    /\ UNCHANGED <<launchVars, hostVars>>
    /\ UNCHANGED <<kcfg, scratch, layer_outputs, w_updates, b_updates, sh_writes>>

\* Lines 325-326: broadcast the delta.
Broadcast(t) ==
    LET r == th[t] IN
    /\ r.pc = "S325"
    /\ scratch' = WriteCells(t, r.d)
    /\ sh_writes' = sh_writes \cup {<<t, k>> : k \in CellsOf(t)}
    /\ th' = [th EXCEPT ![t] = Goto(r, "B329")]
    /\ UNCHANGED <<launchVars, hostVars>>
    /\ UNCHANGED <<kcfg, layer_outputs, w_updates, b_updates, sh_reads>>

\* The error sum taken down column t of the weights instead of along row t.
RECURSIVE ErrorSumOwnColumn(_, _, _, _)
ErrorSumOwnColumn(r, t, x, n) ==
    IF n = 0 THEN 0
    ELSE ErrorSumOwnColumn(r, t, x, n - 1)
         + scratch[Cell(x, n - 1)] * LayerWeights(r, (n - 1) * r.w_stride + t)

\* Lines 331-344: the error of input t of this layer, summed over the outputs.
RECURSIVE ErrorSum(_, _, _, _)
ErrorSum(r, t, x, n) ==
    IF n = 0 THEN 0
    ELSE ErrorSum(r, t, x, n - 1)
         + scratch[Cell(x, n - 1)] * LayerWeights(r, t * r.w_stride + (n - 1))

\* Mutant: the new errors are stored as soon as the thread has its sums.
AfterSumAtOnce == "S350"

\* Lines 346-348: wait until every thread has its sums.
AfterSum == "B348"

SumErrors(t) ==
    LET r == th[t] IN
    /\ r.pc = "S334"
    /\ IF t < r.ni
       THEN /\ th' = [th EXCEPT ![t] = Goto(
                        [r EXCEPT !.total = [x \in XS |-> ErrorSum(r, t, x, r.no)]],
                        AfterSum)]
            /\ sh_reads' = sh_reads \cup
                   {<<t, Cell(x, o)>> : x \in XS, o \in 0 .. (r.no - 1)}
       ELSE /\ th' = [th EXCEPT ![t] = Goto([r EXCEPT !.total = Zero], AfterSum)]
            /\ UNCHANGED sh_reads
    /\ UNCHANGED <<launchVars, hostVars>>
    /\ UNCHANGED <<kcfg, scratch, layer_outputs, w_updates, b_updates, sh_writes>>

\* Lines 350-351: overwrite the broadcast deltas with the new errors.
StoreErrors(t) ==
    LET r == th[t] IN
    /\ r.pc = "S350"
    /\ scratch' = WriteCells(t, r.total)
    /\ sh_writes' = sh_writes \cup {<<t, k>> : k \in CellsOf(t)}
    /\ th' = [th EXCEPT ![t] = Goto(r, "S355")]
    /\ UNCHANGED <<launchVars, hostVars>>
    /\ UNCHANGED <<kcfg, layer_outputs, w_updates, b_updates, sh_reads>>

\* FixedPointAccum32: a 32-bit two's-complement count of 2^-FixedPointFractionBits.
FixedPointFractionBits == 4
MaxInt32 == (2^30 - 1) + 2^30
MinInt32 == (0 - MaxInt32) - 1

\* a + b on 32-bit two's-complement values
WrapAdd32(a, b) ==
    IF b > 0 /\ a > MaxInt32 - b THEN ((a - MaxInt32) - 1) + ((b - MaxInt32) - 1)
    ELSE IF b < 0 /\ a < MinInt32 - b THEN ((a + MaxInt32) + 1) + ((b + MaxInt32) + 1)
    ELSE a + b

\* the fixed-point representation of a value
Quantize(v) == v * 2^FixedPointFractionBits

\* atomic_add(UpdateFloat &, double): the new content of the cell
atomic_add(cell, v) == WrapAdd32(cell, Quantize(v))

\* Lines 358-370: the constants of the update loop.
\* Mutant: the example weight and the learning rate added.
k_sum(x) == ExampleWeights(x) + learning_rate

k_of(x) == ExampleWeights(x) * learning_rate
ThreadStride(ni) ==
    IF ni \div kcfg.num_threads_in_block = 0 THEN 1
    ELSE ni \div kcfg.num_threads_in_block
\* The start offset not reduced modulo ni.
start_atUnreduced(ni) == kcfg.block_num * ThreadStride(ni)
start_at(ni) == (kcfg.block_num * ThreadStride(ni)) % ni

\* A loop that stays at the last input instead of wrapping around.
RealIndexClamped(i_, ni) == IF i_ >= ni THEN ni - 1 ELSE i_

\* Line 375: the real index of i_
RealIndex(i_, ni) == i_ - (IF i_ >= ni THEN ni ELSE 0)

\* Lines 379-386: the update of weight [i, tid], summed over the batch.
PrevOutput(r, x, i) ==
    IF r.l = 0 THEN Input(ExampleOf(x) * input_stride + i)
    ELSE LogRead(r.this_layer_outputs - r.ni, x, i)

RECURSIVE WeightUpdate(_, _, _)
WeightUpdate(r, i, n) ==
    IF n = 0 THEN 0
    ELSE WeightUpdate(r, i, n - 1)
         + PrevOutput(r, n - 1, i) * k_of(ExampleOf(n - 1)) * r.d[n - 1]

RECURSIVE BiasUpdate(_, _)
BiasUpdate(r, n) ==
    IF n = 0 THEN 0
    ELSE BiasUpdate(r, n - 1) + k_of(ExampleOf(n - 1)) * r.d[n - 1]

\* The threads beyond the layer's outputs leave without the barrier of the
\* loop increment.
LeaveWithoutBarrier(t) ==
    LET r == th[t]
        l1 == r.l - 1
        r1 == [r EXCEPT !.l = l1,
                        !.ni = IF l1 >= 0 THEN architecture(l1) ELSE @,
                        !.no = IF l1 >= 0 THEN architecture(l1 + 1) ELSE @,
                        !.w_stride = IF l1 >= 0 THEN w_strides(l1) ELSE @,
                        !.layer_weights =
                            @ - (IF l1 = -1 THEN 0
                                 ELSE architecture(l1) * w_strides(l1)),
                        !.this_layer_outputs = @ - architecture(l1 + 1)]
    IN
    /\ r.pc = "S355"
    /\ th' = [th EXCEPT ![t] =
                 IF t >= r.no
                 THEN [r1 EXCEPT !.pc = IF l1 >= 0 THEN "S306" ELSE "done"]
                 ELSE [r EXCEPT !.i = start_at(r.ni), !.pc = "S372"]]
    /\ UNCHANGED <<launchVars, hostVars>>
    /\ UNCHANGED <<kcfg, scratch, layer_outputs, w_updates, b_updates,
                   sh_reads, sh_writes>>

\* Line 355: threads beyond the layer's outputs leave for the loop increment.
LeaveOrUpdate(t) ==
    LET r == th[t] IN
    /\ r.pc = "S355"
    /\ th' = [th EXCEPT ![t] =
                 IF t >= r.no THEN Goto(r, "B290")
                 ELSE Goto([r EXCEPT !.i = start_at(r.ni)], "S372")]
    /\ UNCHANGED <<launchVars, hostVars>>
    /\ UNCHANGED <<kcfg, scratch, layer_outputs, w_updates, b_updates,
                   sh_reads, sh_writes>>

\* Lines 372-389: one iteration of the staggered update loop.
UpdateStep(t) ==
    LET r == th[t]
        i == RealIndex(r.i, r.ni)
        total_update == WeightUpdate(r, i, kcfg.N)
        r1 == [r EXCEPT !.i = r.i + 1]
    IN
    /\ r.pc = "S372"
    /\ w_updates' = [w_updates EXCEPT ![r.l][i * r.w_stride + t] =
                        atomic_add(@, total_update)]
    /\ th' = [th EXCEPT ![t] =
                 IF r1.i < r.ni + start_at(r.ni) THEN r1 ELSE Goto(r1, "S396")]
    /\ UNCHANGED <<launchVars, hostVars>>
    /\ UNCHANGED <<kcfg, scratch, layer_outputs, b_updates, sh_reads, sh_writes>>

\* Lines 391-396: the update of the bias.
BiasUpdateStep(t) ==
    LET r == th[t] IN
    /\ r.pc = "S396"
    /\ b_updates' = [b_updates EXCEPT ![r.l][t] =
                        atomic_add(@, BiasUpdate(r, kcfg.N))]
    /\ th' = [th EXCEPT ![t] = Goto(r, "B290")]
    /\ UNCHANGED <<launchVars, hostVars>>
    /\ UNCHANGED <<kcfg, scratch, layer_outputs, w_updates, sh_reads, sh_writes>>

\* ---- barriers ----

\* What a thread does between leaving a barrier and its next access to shared
\* or global memory: the loop increments and tests around the barrier.
AfterBarrier(t, r) ==
    CASE r.pc = "B160" ->
            ForwardLayer(t, [r EXCEPT !.this_layer_outputs = 0,
                                      !.layer_weights = 0,
                                      !.layer_biases = 0], 0)
      [] r.pc = "B170" ->
            LET r1 == [r EXCEPT !.layer_weights = @ + r.ni * r.w_stride,
                                !.layer_biases = @ + r.no,
                                !.this_layer_outputs = @ + r.no]
            IN  IF r.l + 1 < num_layers THEN ForwardLayer(t, r1, r.l + 1)
                ELSE Goto([r1 EXCEPT !.l = r.l + 1], "S267")
      [] r.pc = "B221" -> Goto(r, "S223")
      [] r.pc = "B228" -> Goto([r EXCEPT !.i = 0], "S232")
      [] r.pc = "B232" ->
            IF r.i + 1 < max_threads(r) THEN Goto([r EXCEPT !.i = r.i + 1], "S232")
            ELSE Goto([r EXCEPT !.i = r.i + 1], "S237")
      [] r.pc = "B275" -> Goto(r, "S277")
      [] r.pc = "B285" -> BackwardLayer(r, num_layers - 1)
      [] r.pc = "B320" -> Goto(r, "S325")
      [] r.pc = "B329" -> Goto(r, "S334")
      [] r.pc = "B348" -> Goto(r, "S350")
      [] r.pc = "B290" ->
            LET l1 == r.l - 1
                r1 == [r EXCEPT
                         !.l = l1,
                         !.layer_weights =
                             @ - (IF l1 = -1 THEN 0
                                  ELSE architecture(l1) * w_strides(l1)),
                         !.this_layer_outputs = @ - architecture(l1 + 1)]
            IN  IF l1 >= 0 THEN BackwardLayer(r1, l1) ELSE Goto(r1, "done")

\* __syncthreads(): the group goes on once every thread waits in a barrier.
Barrier ==
    /\ \A t \in Threads : th[t].pc \in BarrierSites
    /\ th' = [t \in Threads |-> AfterBarrier(t, th[t])]
    /\ sh_reads' = {}
    /\ sh_writes' = {}
    /\ UNCHANGED <<launchVars, hostVars>>
    /\ UNCHANGED <<kcfg, scratch, layer_outputs, w_updates, b_updates>>

\* The state of a group entering train_N_examples<N>; zero example weights,
\* a zero learning rate and the third activation are tried in group 0.
KernelConfigs ==
    { cfg \in
        { [architecture |-> a,
           w_strides |-> [l \in 1 .. (Len(a) - 1) |-> a[l + 1] + (sd % 2)],
           N |-> n, activation |-> act, seed |-> sd,
           block_num |-> b, num_threads_in_block |-> 2,
           example_num |-> 0, last_example |-> n, zero |-> z] :
          a \in Archs, n \in BatchSizes, act \in Activations,
          sd \in 0 .. (KernelSeeds - 1), b \in 0 .. 2,
          z \in {"none", "weight", "rate"} } :
      \/ cfg.block_num = 0
      \/ cfg.zero = "none" /\ cfg.activation \in {"ACT_TANH", "ACT_IDENTITY"} }

\* The threads of the group entering a call under configuration cfg.
EnterCall(cfg) ==
    [t \in 0 .. (PlanMaxWidth(cfg.architecture) - 1) |->
        [pc |-> "S155", l |-> 0, i |-> 0,
         ni |-> cfg.architecture[1], no |-> 0, w_stride |-> 0,
         layer_weights |-> 0, layer_biases |-> 0, this_layer_outputs |-> 0,
         accum |-> [x \in 0 .. (cfg.N - 1) |-> 0],
         last_output |-> [x \in 0 .. (cfg.N - 1) |-> 0],
         d |-> [x \in 0 .. (cfg.N - 1) |-> 0],
         total |-> [x \in 0 .. (cfg.N - 1) |-> 0],
         nbar |-> 0]]

KernelEntry(cfg) ==
    /\ kcfg = cfg
    /\ th = EnterCall(cfg)
    /\ scratch = [k \in 0 .. (kcfg.N * PlanMaxWidth(kcfg.architecture) - 1) |-> 0]
    /\ layer_outputs =
           [k \in 0 .. (kcfg.N * PlanTotalNeurons(kcfg.architecture) - 1) |-> 0]
    /\ w_updates = [l \in 0 .. (Len(kcfg.architecture) - 2) |->
                      [k \in 0 .. (kcfg.architecture[l + 1] * kcfg.w_strides[l + 1] - 1)
                          |-> 0]]
    /\ b_updates = [l \in 0 .. (Len(kcfg.architecture) - 2) |->
                      [k \in 0 .. (kcfg.architecture[l + 2] - 1) |-> 0]]
    /\ sh_reads = {}
    /\ sh_writes = {}
    /\ LaunchIdle
    /\ HostIdle

InitKernel == \E cfg \in KernelConfigs : KernelEntry(cfg)

NextKernel ==
    \/ \E t \in Threads : LoadInputs(t)
    \/ \E t \in Threads : DotStep(t)
    \/ \E t \in Threads : BiasStore(t)
    \/ \E t \in Threads : RoundStep(t)
    \/ \E t \in Threads : OutputStore(t)
    \/ \E t \in Threads : SingleOutputStore(t)
    \/ \E t \in Threads : ReadLastOutput(t)
    \/ \E t \in Threads : TopError(t)
    \/ \E t \in Threads : DeltaStep(t)
    \/ \E t \in Threads : Broadcast(t)
    \/ \E t \in Threads : SumErrors(t)
    \/ \E t \in Threads : StoreErrors(t)
    \/ \E t \in Threads : LeaveOrUpdate(t)
    \/ \E t \in Threads : UpdateStep(t)
    \/ \E t \in Threads : BiasUpdateStep(t)
    \/ Barrier

SpecKernel == InitKernel /\ [][NextKernel]_vars

(***************************************************************************)
(* Launcher claims                                                         *)
(***************************************************************************)
Covers(c, e) == c[3] <= e /\ e < c[3] + c[2]
CallsCovering(e) == {c \in calls : Covers(c, e)}
LaunchDone == \A g \in Groups : lpc[g] = "done"

\* C1: over one launch every example index below batch_size is passed to the
\* batched routine exactly once, and no index at or beyond the end of the
\* calling group's chunk is ever passed.
C1_EachExampleOnce ==
    /\ \A c \in calls : c[3] + c[2] <= last_example[c[1]]
    /\ \A e \in 0 .. (total_num_examples - 1) : Cardinality(CallsCovering(e)) <= 1
    /\ LaunchDone =>
         \A e \in 0 .. (total_num_examples - 1) : Cardinality(CallsCovering(e)) = 1

\* C2: the batch-of-8 routine is called only while at least 8 examples of the
\* chunk remain, the batch-of-4 routine only while at least 4 (and fewer than
\* 8) remain, the batch-of-1 routine only for the rest (fewer than 4).
Remaining(c) == last_example[c[1]] - c[3]
C2_SteppedBatching ==
    \A c \in calls :
        /\ c[2] = 8 => Remaining(c) >= 8
        /\ c[2] = 4 => Remaining(c) >= 4 /\ Remaining(c) < 8
        /\ c[2] = 1 => Remaining(c) >= 1 /\ Remaining(c) < 4

\* C3: every thread group of a launched batch eventually finishes.
C3_LaunchTerminates == <>LaunchDone

(***************************************************************************)
(* Claims about the training routine                                       *)
(***************************************************************************)
ForwardSites == {"S155", "B160", "S213", "B221", "S223", "B228", "S232",
                 "B232", "S237", "S249", "B170"}
InForward(t) == th[t].pc \in ForwardSites

\* The scratch cells thread u has yet to read as inputs of its layer: the
\* remaining iterations of its loop of line 213.
PendingInputReads(u) ==
    IF th[u].pc = "S213"
    THEN {Cell(x, i) : x \in XS,
                       i \in {j \in th[u].i .. (th[u].ni - 1) :
                                (j - th[u].i) % o_threads(u, th[u]) = 0}}
    ELSE {}

\* C4: in the forward pass no thread overwrites a scratch cell with the
\* layer's output (or bias) while a different thread can still read the same
\* cell as that layer's input.
C4_NoForwardOverwrite ==
    \A w \in sh_writes : \A u \in Threads :
        (InForward(w[1]) /\ u # w[1]) => w[2] \notin PendingInputReads(u)

\* C5: every barrier is reached by all threads of the group the same number
\* of times: threads waiting in a barrier wait in the same one (same line,
\* same layer, same round), no thread has left the routine while another
\* waits, and the threads that have left have passed equally many barriers.
C5_BarriersUniform ==
    \A t \in Threads : \A u \in Threads :
        /\ (th[t].pc \in BarrierSites /\ th[u].pc \in BarrierSites) =>
              /\ th[t].pc = th[u].pc
              /\ th[t].l = th[u].l
              /\ th[t].nbar = th[u].nbar
              /\ th[t].pc = "B232" => th[t].i = th[u].i
        /\ ~(th[t].pc = "done" /\ th[u].pc \in BarrierSites)
        /\ (th[t].pc = "done" /\ th[u].pc = "done") => th[t].nbar = th[u].nbar

\* A thread beyond the layer's outputs has skipped the gradient accumulation
\* of an interior layer and waits in the layer-boundary barrier, after the
\* broadcast barriers, while another thread accumulates.
C5_Witness ==
    \E t \in Threads : \E u \in Threads :
        /\ th[t].pc = "B290" /\ t >= th[t].no /\ th[t].l > 0
        /\ th[t].nbar = th[u].nbar + 1
        /\ th[u].pc \in {"S372", "S396"}

(***************************************************************************)
(* Accumulator claims                                                      *)
(***************************************************************************)
KernelDone == \A t \in Threads : th[t].pc = "done"

\* The offsets of layer l in the weight and bias buffers.
RECURSIVE WeightsOffset(_)
WeightsOffset(l) ==
    IF l = 0 THEN 0 ELSE WeightsOffset(l - 1) + architecture(l - 1) * w_strides(l - 1)
RECURSIVE BiasesOffset(_)
BiasesOffset(l) == IF l = 0 THEN 0 ELSE BiasesOffset(l - 1) + architecture(l)

\* The values of a sequential evaluation of the network on example x: every
\* layer reads the complete output of the layer below.
RECURSIVE RefOut(_, _, _)
RefIn(l, x, i) == IF l = 0 THEN Input(x * input_stride + i) ELSE RefOut(l - 1, x, i)
RECURSIVE RefDot(_, _, _, _)
RefDot(l, x, o, n) ==
    IF n = 0 THEN 0
    ELSE RefDot(l, x, o, n - 1)
         + DWeights(WeightsOffset(l) + (n - 1) * w_strides(l) + o) * RefIn(l, x, n - 1)
RefOut(l, x, o) ==
    transform(RefDot(l, x, o, architecture(l)) + DBiases(BiasesOffset(l) + o),
              kcfg.activation)

RECURSIVE RefDelta(_, _, _)
RECURSIVE RefBack(_, _, _, _)
RefBack(l, x, i, n) ==
    IF n = 0 THEN 0
    ELSE RefBack(l, x, i, n - 1)
         + RefDelta(l, x, n - 1) * DWeights(WeightsOffset(l) + i * w_strides(l) + (n - 1))
RefError(l, x, o) ==
    IF l = num_layers - 1 THEN wanted(x, o) - RefOut(l, x, o)
    ELSE RefBack(l + 1, x, o, architecture(l + 2))
RefDelta(l, x, o) == delta(RefOut(l, x, o), RefError(l, x, o), kcfg.activation)

RECURSIVE RefWeightUpdate(_, _, _, _)
RefWeightUpdate(l, i, o, n) ==
    IF n = 0 THEN 0
    ELSE RefWeightUpdate(l, i, o, n - 1)
         + RefIn(l, n - 1, i) * k_of(n - 1) * RefDelta(l, n - 1, o)
RECURSIVE RefBiasUpdate(_, _, _)
RefBiasUpdate(l, o, n) ==
    IF n = 0 THEN 0 ELSE RefBiasUpdate(l, o, n - 1) + k_of(n - 1) * RefDelta(l, n - 1, o)

\* The accumulators one call leaves behind when started on zeroed cells.
RefWeightUpdates ==
    [l \in 0 .. (num_layers - 1) |->
        [c \in 0 .. (architecture(l) * w_strides(l) - 1) |->
            IF c % w_strides(l) < architecture(l + 1)
            THEN atomic_add(0, RefWeightUpdate(l, c \div w_strides(l),
                                               c % w_strides(l), kcfg.N))
            ELSE 0]]
RefBiasUpdates ==
    [l \in 0 .. (num_layers - 1) |->
        [o \in 0 .. (architecture(l + 1) - 1) |->
            atomic_add(0, RefBiasUpdate(l, o, kcfg.N))]]

\* C6: for a fixed batch and Plan the final value of every weight-gradient
\* and bias-gradient accumulator cell is the same for every interleaving:
\* it is the value of the sequential evaluation.
C6_AccumulatorsDeterministic ==
    KernelDone => (w_updates = RefWeightUpdates /\ b_updates = RefBiasUpdates)

\* the same, on the architectures whose layers all take the barrier-separated
\* multi-thread path
NoSingleThreadLayer ==
    \A l \in 0 .. (num_layers - 1) : architecture(l + 1) < max_width
C6_DeterministicWhenSeparated ==
    (KernelDone /\ NoSingleThreadLayer) =>
        (w_updates = RefWeightUpdates /\ b_updates = RefBiasUpdates)

(***************************************************************************)
(* Backprop::Plan, Backprop::Context, execute() and synchronize(), and     *)
(* the device they drive.                                                  *)
(***************************************************************************)
MaxPlans == 2            \* Plans constructed in one behaviour
MaxContexts == 2         \* Contexts constructed in one behaviour

\* The network the host builds Plans for: two layers, the first with a
\* padded row stride.
PlanShapes == {[architecture |-> <<1, 1, 1>>, w_strides |-> <<2, 1>>]}
\* The batch sizes the host trains on: one thread group, and two.
HostBatches == {1, 5}

\* The caller's weights and biases for the Plan constructed as number p.
HostWeights(p, l, k) == p + l + k
HostBiases(p, l, k) == 0 - (p + l + k)

Layers(arch) == 0 .. (Len(arch) - 2)

\* Plan: where the weights and the biases of layer l start in the device
\* buffers (weights_start_offset, bias_start_offset).
RECURSIVE weights_start_offset(_, _, _)
weights_start_offset(arch, strides, l) ==
    IF l = 0 THEN 0
    ELSE weights_start_offset(arch, strides, l - 1) + arch[l] * strides[l]
RECURSIVE bias_start_offset(_, _)
bias_start_offset(arch, l) ==
    IF l = 0 THEN 0 ELSE bias_start_offset(arch, l - 1) + arch[l + 1]

\* Plan: the device buffers after the cudaMemcpy of every layer.
UploadWeights(p, arch, strides) ==
    [k \in 0 .. (weights_start_offset(arch, strides, Len(arch) - 1) - 1) |->
        LET l == CHOOSE m \in Layers(arch) :
                     /\ weights_start_offset(arch, strides, m) <= k
                     /\ k < weights_start_offset(arch, strides, m + 1)
        IN  HostWeights(p, l, k - weights_start_offset(arch, strides, l))]
UploadBiases(p, arch) ==
    [k \in 0 .. (bias_start_offset(arch, Len(arch) - 1) - 1) |->
        LET l == CHOOSE m \in Layers(arch) :
                     /\ bias_start_offset(arch, m) <= k
                     /\ k < bias_start_offset(arch, m + 1)
        IN  HostBiases(p, l, k - bias_start_offset(arch, l))]

\* Plan: the device calls of the constructor that report an error, in the
\* order of lines 1403-1463: per layer the upload of the weights and of the
\* biases, then with use_textures the two binds.
PlanCalls(arch, use_textures) ==
    LET uploads == [k \in 1 .. (2 * (Len(arch) - 1)) |->
                       <<IF k % 2 = 1 THEN "weights" ELSE "biases", (k - 1) \div 2>>]
    IN  IF use_textures
        THEN uploads \o << <<"bind", "weights_tex">>, <<"bind", "biases_tex">> >>
        ELSE uploads

\* Mutant: the constructor goes on whatever a call reported.
ThrowsNever(err) == FALSE

\* Lines 1415, 1423, 1457, 1461: if (err != cudaSuccess) throw.
Throws(err) == err # "cudaSuccess"

\* The number of the call after which the constructor throws, 0 if none;
\* errs[k] is what call number k reports.
FirstThrow(errs) ==
    IF \E k \in 1 .. Len(errs) : Throws(errs[k])
    THEN CHOOSE k \in 1 .. Len(errs) :
             Throws(errs[k]) /\ \A j \in 1 .. (k - 1) : ~Throws(errs[j])
    ELSE 0

\* Backprop::plan(): construct a Plan; the device fails call number f of the
\* constructor (none if f = 0).  With use_textures the two global texture
\* references are bound to this Plan's buffers; a constructor that throws
\* after the first bind leaves weights_tex bound to the buffer of a Plan
\* that no longer exists (-1).
PlanCreate(shape, use_textures, f) ==
    LET p == Len(plans) + 1
        cs == PlanCalls(shape.architecture, use_textures)
        errs == [k \in 1 .. Len(cs) |->
                    IF k = f THEN "cudaErrorUnknown" ELSE "cudaSuccess"]
        t == FirstThrow(errs)
        made == IF t = 0 THEN cs ELSE SubSeq(cs, 1, t)
        bound(tex) == \E k \in 1 .. Len(made) :
                          made[k] = <<"bind", tex>> /\ errs[k] = "cudaSuccess"
    IN
    /\ Len(plans) < MaxPlans
    /\ f \in 0 .. Len(cs)
    /\ plans' = IF t # 0 THEN plans
                ELSE Append(plans,
           [architecture |-> shape.architecture,
            w_strides |-> shape.w_strides,
            num_layers |-> Len(shape.architecture) - 1,
            d_weights |-> UploadWeights(p, shape.architecture, shape.w_strides),
            d_biases |-> UploadBiases(p, shape.architecture),
            max_width |-> PlanMaxWidth(shape.architecture),
            total_neurons |-> PlanTotalNeurons(shape.architecture),
            use_textures |-> use_textures])
    /\ weights_tex' = IF bound("weights_tex") THEN (IF t = 0 THEN p ELSE -1)
                      ELSE weights_tex
    /\ biases_tex' = IF bound("biases_tex") THEN (IF t = 0 THEN p ELSE -1)
                     ELSE biases_tex
    /\ event' = <<"plan", IF t = 0 THEN p ELSE 0, made, f>>
    /\ UNCHANGED <<contexts, dev_error>>
    /\ UNCHANGED <<launchVars, kernelVars>>

\* DeviceData<UpdateFloat>::init_zeroed(n): a fresh device array of n zeroes.
init_zeroed(n) == [k \in 0 .. (n - 1) |-> 0]

\* What the caller's output buffers hold before anything is copied to them.
CallerContent(c) == 0 - c

\* The kernel adding to every column of a row, the padding included.
UpdateCellsWholeRows(P) ==
    UNION {   {<<"w", l, k>> :
                  k \in 0 .. (P.architecture[l + 1] * P.w_strides[l + 1] - 1)}
         \cup {<<"b", l, o>> : o \in 0 .. (P.architecture[l + 2] - 1)}
         : l \in Layers(P.architecture) }

\* The accumulator cells the kernel adds to: <<"w", l, i * w_stride + o>> for
\* i < ni and o < no, and <<"b", l, o>> for o < no.
UpdateCells(P) ==
    UNION {   {<<"w", l, i * P.w_strides[l + 1] + o>> :
                  i \in 0 .. (P.architecture[l + 1] - 1),
                  o \in 0 .. (P.architecture[l + 2] - 1)}
         \cup {<<"b", l, o>> : o \in 0 .. (P.architecture[l + 2] - 1)}
         : l \in Layers(P.architecture) }

\* The order in which a group reaches them: layers from the top down, the
\* weights of a layer before its biases.
CellBefore(a, b) ==
    \/ a[2] > b[2]
    \/ a[2] = b[2] /\ a[1] = "w" /\ b[1] = "b"
    \/ a[2] = b[2] /\ a[1] = b[1] /\ a[3] < b[3]
NthCell(P, n) ==
    CHOOSE x \in UpdateCells(P) :
        Cardinality({y \in UpdateCells(P) : CellBefore(y, x)}) = n

\* The gradient contribution group g of the launch of Context c has for a cell.
Contribution(c, g, cell) == 1 + ((c + g + cell[3]) % 2)

\* Mutant: every kernel is launched on the accumulators of the first Context.
FirstContextTarget(c) == 1

\* execute(): the kernel is launched on the accumulators of its own Context.
LaunchTarget(c) == c

\* The accumulators of a Context after atomic_add(cell, v).
HasCell(ctx, cell) ==
    /\ cell[2] \in DOMAIN ctx.d_weight_updates_storage
    /\ cell[3] \in DOMAIN (IF cell[1] = "w"
                           THEN ctx.d_weight_updates_storage[cell[2]]
                           ELSE ctx.d_bias_updates_storage[cell[2]])
AddAt(ctx, cell, v) ==
    IF ~HasCell(ctx, cell) THEN ctx
    ELSE IF cell[1] = "w"
    THEN [ctx EXCEPT !.d_weight_updates_storage[cell[2]][cell[3]] = atomic_add(@, v)]
    ELSE [ctx EXCEPT !.d_bias_updates_storage[cell[2]][cell[3]] = atomic_add(@, v)]

\* Backprop::execute(): construct the Context of a batch of n examples for
\* Plan p and launch the kernel; the call returns at once.
Execute(p, n) ==
    LET c == Len(contexts) + 1
        P == plans[p]
        grid == rudiv(n, NumExamplesPerInvocation)
    IN
    /\ Len(contexts) < MaxContexts
    /\ contexts' = Append(contexts,
           [plan |-> p,
            num_feature_vectors |-> n,
            grid |-> grid,
            d_weight_updates_storage |->
                [l \in Layers(P.architecture) |->
                    init_zeroed(P.architecture[l + 1] * P.w_strides[l + 1])],
            d_bias_updates_storage |->
                [l \in Layers(P.architecture) |-> init_zeroed(P.architecture[l + 2])],
            weight_updates |->
                [l \in Layers(P.architecture) |->
                    [k \in 0 .. (P.architecture[l + 1] * P.w_strides[l + 1] - 1) |->
                        CallerContent(c)]],
            bias_updates |->
                [l \in Layers(P.architecture) |->
                    [k \in 0 .. (P.architecture[l + 2] - 1) |-> CallerContent(c)]],
            correct |-> CallerContent(c),
            total |-> CallerContent(c),
            rms_error |-> CallerContent(c),
            kernel |-> IF dev_error = "cudaSuccess" THEN "launched" ELSE "failed",
            progress |-> [g \in 0 .. (grid - 1) |-> 0],
            own |-> [x \in UpdateCells(P) |-> 0]])
    /\ event' = <<"execute", c>>
    /\ UNCHANGED <<plans, weights_tex, biases_tex, dev_error>>
    /\ UNCHANGED <<launchVars, kernelVars>>

\* Kernels launched on the default stream run one after the other.
Running(c) ==
    /\ contexts[c].kernel = "launched"
    /\ \A b \in 1 .. (c - 1) : contexts[b].kernel \in {"complete", "failed"}

\* Group g of the running kernel of Context c makes its next atomic add; the
\* kernel completes with the last add of its last group.
GroupAdd(c, g) ==
    LET P == plans[contexts[c].plan]
        n == contexts[c].progress[g]
        cell == NthCell(P, n)
        v == Contribution(c, g, cell)
        progress == [contexts[c].progress EXCEPT ![g] = n + 1]
        finished == \A h \in DOMAIN progress : progress[h] = Cardinality(UpdateCells(P))
    IN
    /\ Running(c)
    /\ n < Cardinality(UpdateCells(P))
    /\ contexts' =
           [x \in DOMAIN contexts |->
               LET r == IF x = LaunchTarget(c) THEN AddAt(contexts[x], cell, v)
                        ELSE contexts[x]
               IN  IF x = c
                   THEN [r EXCEPT !.progress = progress,
                                  !.own[cell] = atomic_add(@, v),
                                  !.kernel = IF finished THEN "complete" ELSE @]
                   ELSE r]
    /\ UNCHANGED <<plans, weights_tex, biases_tex, dev_error, event>>
    /\ UNCHANGED <<launchVars, kernelVars>>

\* The running kernel fails: the device keeps the error, and neither this
\* kernel nor the ones queued behind it go on.
DeviceFault(c) ==
    /\ Running(c)
    /\ contexts' = [x \in DOMAIN contexts |->
                       IF contexts[x].kernel = "launched"
                       THEN [contexts[x] EXCEPT !.kernel = "failed"]
                       ELSE contexts[x]]
    /\ dev_error' = "cudaErrorLaunchFailure"
    /\ UNCHANGED <<plans, weights_tex, biases_tex, event>>
    /\ UNCHANGED <<launchVars, kernelVars>>

\* Mutant: the host does not wait for the device.
DeviceNeverBusy == TRUE

\* cudaThreadSynchronize() returns once no kernel is queued or running.
DeviceIdle == \A c \in DOMAIN contexts : contexts[c].kernel \in {"complete", "failed"}

\* FixedPointAccum32 to float: the count of 2^-FixedPointFractionBits as a value.
ToFloat(q) == q \div (2^FixedPointFractionBits)

\* Mutant: the copy loops run whatever the device reported.
CopiesBackAlways(err) == TRUE

\* synchronize(): whether the copy loops of lines 1597-1628 are reached.
CopiesBack(err) == err = "cudaSuccess"

\* A synchronize() that also reports the totals of the batch through the
\* caller's correct, total and rms_error.
SynchronizeReportingTotals(c) ==
    LET err == dev_error
        ctx == contexts[c]
    IN
    /\ c \in DOMAIN contexts
    /\ DeviceIdle
    /\ contexts' =
           IF CopiesBack(err)
           THEN [contexts EXCEPT
                   ![c].weight_updates =
                       [l \in DOMAIN ctx.weight_updates |->
                           [k \in DOMAIN ctx.weight_updates[l] |->
                               ToFloat(ctx.d_weight_updates_storage[l][k])]],
                   ![c].bias_updates =
                       [l \in DOMAIN ctx.bias_updates |->
                           [k \in DOMAIN ctx.bias_updates[l] |->
                               ToFloat(ctx.d_bias_updates_storage[l][k])]],
                   ![c].correct = 0,
                   ![c].total = ctx.num_feature_vectors,
                   ![c].rms_error = 0]
           ELSE contexts
    /\ event' = <<"synchronize", c, IF err # "cudaSuccess" THEN "failed" ELSE "ok">>
    /\ UNCHANGED <<plans, weights_tex, biases_tex, dev_error>>
    /\ UNCHANGED <<launchVars, kernelVars>>

\* Backprop::synchronize(): wait for the device; throw on an error, else
\* copy every layer's accumulators to the caller's buffers.  Nothing in the
\* program resets the error the device holds.
Synchronize(c) ==
    LET err == dev_error
        ctx == contexts[c]
    IN
    /\ c \in DOMAIN contexts
    /\ DeviceIdle
    /\ contexts' =
           IF CopiesBack(err)
           THEN [contexts EXCEPT
                   ![c].weight_updates =
                       [l \in DOMAIN ctx.weight_updates |->
                           [k \in DOMAIN ctx.weight_updates[l] |->
                               ToFloat(ctx.d_weight_updates_storage[l][k])]],
                   ![c].bias_updates =
                       [l \in DOMAIN ctx.bias_updates |->
                           [k \in DOMAIN ctx.bias_updates[l] |->
                               ToFloat(ctx.d_bias_updates_storage[l][k])]]]
           ELSE contexts
    /\ event' = <<"synchronize", c, IF err # "cudaSuccess" THEN "failed" ELSE "ok">>
    /\ UNCHANGED <<plans, weights_tex, biases_tex, dev_error>>
    /\ UNCHANGED <<launchVars, kernelVars>>

InitHost == HostIdle /\ LaunchIdle /\ KernelIdle

NextHost ==
    \/ \E shape \in PlanShapes : \E use_textures \in BOOLEAN :
           PlanCreate(shape, use_textures, 0)
    \/ \E p \in DOMAIN plans : \E n \in HostBatches : Execute(p, n)
    \/ \E c \in DOMAIN contexts : \E g \in DOMAIN contexts[c].progress : GroupAdd(c, g)
    \/ \E c \in DOMAIN contexts : DeviceFault(c)
    \/ \E c \in DOMAIN contexts : Synchronize(c)

SpecHost == InitHost /\ [][NextHost]_vars

\* The constructions of the host, with the device failing any one call of a
\* Plan's constructor: Backprop::plan() and Backprop::execute().
NextConstruct ==
    \/ \E shape \in PlanShapes : \E use_textures \in BOOLEAN :
           \E f \in 0 .. Len(PlanCalls(shape.architecture, use_textures)) :
               PlanCreate(shape, use_textures, f)
    \/ \E p \in DOMAIN plans : \E n \in HostBatches : Execute(p, n)

SpecConstruct == InitHost /\ [][NextConstruct]_vars

(***************************************************************************)
(* Host claims                                                             *)
(***************************************************************************)
\* train_examples_kernel, lines 1266-1272: the accessors of a launch for
\* Plan P read its buffers directly unless P asked for textures; the
\* textures are the global references, whatever they are bound to.
BoundBuffer(tex, field) == IF tex \in DOMAIN plans THEN plans[tex][field] ELSE <<>>
KernelWeight(P, k) ==
    WeightsAccess(IF P.use_textures THEN NullPtr ELSE P.d_weights,
                  BoundBuffer(weights_tex, "d_weights"), 0, k)
KernelBias(P, k) ==
    WeightsAccess(IF P.use_textures THEN NullPtr ELSE P.d_biases,
                  BoundBuffer(biases_tex, "d_biases"), 0, k)

\* C7: whatever Plans were constructed before, the Weight Accessor of a
\* running launch for Plan P returns at every logical index the weight and
\* the bias that P uploaded there, in direct and in texture mode.
C7_AccessorReturnsUploaded ==
    \A c \in DOMAIN contexts :
        Running(c) =>
            LET p == contexts[c].plan
                P == plans[p]
            IN  \A l \in Layers(P.architecture) :
                  /\ \A k \in 0 .. (P.architecture[l + 1] * P.w_strides[l + 1] - 1) :
                        KernelWeight(P, weights_start_offset(P.architecture,
                                                             P.w_strides, l) + k)
                            = HostWeights(p, l, k)
                  /\ \A k \in 0 .. (P.architecture[l + 2] - 1) :
                        KernelBias(P, bias_start_offset(P.architecture, l) + k)
                            = HostBiases(p, l, k)

Unwritten(ctx, c) ==
    /\ \A l \in DOMAIN ctx.weight_updates : \A k \in DOMAIN ctx.weight_updates[l] :
           ctx.weight_updates[l][k] = CallerContent(c)
    /\ \A l \in DOMAIN ctx.bias_updates : \A k \in DOMAIN ctx.bias_updates[l] :
           ctx.bias_updates[l][k] = CallerContent(c)
AllAddsMade(ctx) ==
    /\ ctx.kernel = "complete"
    /\ \A g \in DOMAIN ctx.progress :
           ctx.progress[g] = Cardinality(UpdateCells(plans[ctx.plan]))

\* The adds of the groups of a launch commute: once all are made, every cell
\* holds the sum of the groups' contributions taken in group order.
RECURSIVE GroupSum(_, _, _)
GroupSum(c, cell, n) ==
    IF n = 0 THEN 0
    ELSE atomic_add(GroupSum(c, cell, n - 1), Contribution(c, n - 1, cell))
GroupAddsCommute ==
    \A c \in DOMAIN contexts :
        AllAddsMade(contexts[c]) =>
            \A cell \in UpdateCells(plans[contexts[c].plan]) :
                (IF cell[1] = "w"
                 THEN contexts[c].d_weight_updates_storage[cell[2]][cell[3]]
                 ELSE contexts[c].d_bias_updates_storage[cell[2]][cell[3]])
                    = GroupSum(c, cell, contexts[c].grid)

\* C8: execute() returns with the caller's output buffers untouched; the
\* buffers of a Context change only in a step of its synchronize(), taken
\* when every group of its launch has made all of its atomic adds.
C8_BuffersWrittenOnlyInSynchronize ==
    [][ /\ \A c \in DOMAIN contexts :
              (\/ contexts'[c].weight_updates # contexts[c].weight_updates
               \/ contexts'[c].bias_updates # contexts[c].bias_updates)
              => (Synchronize(c) /\ AllAddsMade(contexts[c]))
        /\ \A c \in (DOMAIN contexts') \ (DOMAIN contexts) :
              event' = <<"execute", c>> /\ Unwritten(contexts'[c], c)
      ]_vars

C8_Witness ==
    /\ event = <<"execute", 2>>
    /\ contexts[2].kernel = "launched"
    /\ ~Unwritten(contexts[1], 1)
    /\ contexts[1].grid > 1

OwnSum(ctx, cell) == IF cell \in DOMAIN ctx.own THEN ctx.own[cell] ELSE 0

\* C9: after a successful synchronize() of a Context every entry of the
\* caller's weight and bias buffers is the conversion of the accumulator
\* cell, and that cell is zero plus the atomic adds of the Context's own
\* launch.
C9_ResultsAreOwnSums ==
    \A c \in DOMAIN contexts :
        event = <<"synchronize", c, "ok">> =>
            LET ctx == contexts[c] IN
            /\ \A l \in DOMAIN ctx.weight_updates :
                 \A k \in DOMAIN ctx.weight_updates[l] :
                    /\ ctx.weight_updates[l][k] = ToFloat(ctx.d_weight_updates_storage[l][k])
                    /\ ctx.d_weight_updates_storage[l][k] = OwnSum(ctx, <<"w", l, k>>)
            /\ \A l \in DOMAIN ctx.bias_updates :
                 \A k \in DOMAIN ctx.bias_updates[l] :
                    /\ ctx.bias_updates[l][k] = ToFloat(ctx.d_bias_updates_storage[l][k])
                    /\ ctx.d_bias_updates_storage[l][k] = OwnSum(ctx, <<"b", l, k>>)

C9_Witness ==
    /\ event = <<"synchronize", 2, "ok">>
    /\ contexts[1].plan = contexts[2].plan
    /\ contexts[2].grid > 1
    /\ \A c \in {1, 2} : \A cell \in DOMAIN contexts[c].own : contexts[c].own[cell] # 0

\* C10: a synchronize() that finds a device error raises a failure and
\* leaves every output buffer of the caller as it was.
C10_FailedSynchronizeWritesNothing ==
    [][ \A c \in DOMAIN contexts :
            (Synchronize(c) /\ dev_error # "cudaSuccess") =>
                /\ event' = <<"synchronize", c, "failed">>
                /\ \A b \in DOMAIN contexts :
                      /\ contexts'[b].weight_updates = contexts[b].weight_updates
                      /\ contexts'[b].bias_updates = contexts[b].bias_updates
      ]_vars

C10_Witness ==
    \E c \in DOMAIN contexts :
        /\ event = <<"synchronize", c, "failed">>
        /\ Unwritten(contexts[c], c)
        /\ \E cell \in DOMAIN contexts[c].own : contexts[c].own[cell] # 0

\* The kernel of a Context is queued or running.
Unfinished(c) == contexts[c].kernel = "launched"

SerialConfigs ==
    { [cfg EXCEPT !.N = 1, !.last_example = cfg.N] :
      cfg \in {k \in KernelConfigs :
                  /\ k.architecture \in {<<2, 1>>, <<3, 2>>, <<2, 1, 1>>, <<2, 2>>}
                  /\ k.block_num = 0} }

\* Every example of the chunk has been handled.
CallsDone == KernelDone /\ kcfg.example_num + kcfg.N >= kcfg.last_example

\* Line 1307: the loop goes on to the next example; the group enters the
\* routine again, scratch, log and accumulators as the last call left them.
NextCall ==
    /\ KernelDone
    /\ kcfg.example_num + kcfg.N < kcfg.last_example
    /\ kcfg' = [kcfg EXCEPT !.example_num = @ + kcfg.N]
    /\ th' = EnterCall(kcfg')
    /\ UNCHANGED <<launchVars, hostVars>>
    /\ UNCHANGED <<scratch, layer_outputs, w_updates, b_updates, sh_reads, sh_writes>>

InitSerial == \E cfg \in KernelConfigs \cup SerialConfigs : KernelEntry(cfg)

NextSerial ==
    \/ NextKernel
    \/ NextCall

SpecSerial == InitSerial /\ [][NextSerial]_vars

\* The accumulators of a sequential evaluation of the whole chunk.
ChunkWeightUpdates ==
    [l \in 0 .. (num_layers - 1) |->
        [c \in 0 .. (architecture(l) * w_strides(l) - 1) |->
            IF c % w_strides(l) < architecture(l + 1)
            THEN atomic_add(0, RefWeightUpdate(l, c \div w_strides(l),
                                               c % w_strides(l), kcfg.last_example))
            ELSE 0]]
ChunkBiasUpdates ==
    [l \in 0 .. (num_layers - 1) |->
        [o \in 0 .. (architecture(l + 1) - 1) |->
            atomic_add(0, RefBiasUpdate(l, o, kcfg.last_example))]]

\* C12: for N in {1, 4, 8}, a fixed network and N examples, one call of the
\* batch-of-N routine and N calls of the batch-of-1 routine leave the same
\* weight- and bias-gradient accumulators: both leave the value that the
\* network and the examples determine.
C12_BatchEqualsSingleCalls ==
    CallsDone => (w_updates = ChunkWeightUpdates /\ b_updates = ChunkBiasUpdates)

\* The same where every layer has fewer outputs than the widest layer.
C12_EqualWhenSeparated ==
    (CallsDone /\ NoSingleThreadLayer) =>
        (w_updates = ChunkWeightUpdates /\ b_updates = ChunkBiasUpdates)

C12_Witness ==
    /\ CallsDone /\ NoSingleThreadLayer
    /\ kcfg.N = 1 /\ kcfg.last_example = 8
    /\ \E l \in 0 .. (num_layers - 1) : \E c \in DOMAIN w_updates[l] :
           w_updates[l][c] # 0

(***************************************************************************)
(* The logged activations                                                  *)
(***************************************************************************)
\* Every thread has left the forward pass (line 258).
ForwardDone == \A t \in Threads : ~InForward(t)

\* The log of example x holds the outputs of layer l from this offset on.
OutputsOffset(l) == BiasesOffset(l)

LoggedAsReference(x) ==
    \A l \in 0 .. (num_layers - 1) : \A o \in 0 .. (architecture(l + 1) - 1) :
        LogRead(OutputsOffset(l), x, o) = RefOut(l, ExampleOf(x), o)

\* C13: with a single example, after the forward pass every logged output of
\* every layer is transform(bias[o] + sum of weight[i*w_stride + o] * input[i])
\* of the sequential evaluation, layer by layer, whichever of the two paths
\* the layers take.
C13_ForwardLogIsReference ==
    (kcfg.N = 1 /\ ForwardDone) => LoggedAsReference(0)

\* The same for the layers with several threads per output.
C13_LogWhenSeparated ==
    (kcfg.N = 1 /\ ForwardDone /\ NoSingleThreadLayer) => LoggedAsReference(0)

C13_Witness ==
    /\ kcfg.N = 1 /\ ForwardDone /\ NoSingleThreadLayer
    /\ num_layers = 2
    /\ \E o \in 0 .. (architecture(2) - 1) : LogRead(OutputsOffset(1), 0, o) # 0

(***************************************************************************)
(* The staggered update loop                                               *)
(***************************************************************************)
\* What the loop of lines 372-389, started at input 0 on zeroed cells, leaves
\* in the accumulator of weight [i, t]: one addition of the batch's update.
UnstaggeredCell(t, i) == atomic_add(0, WeightUpdate(th[t], i, kcfg.N))

\* Thread t has left the update loop of its layer and not yet gone on.
LoopLeft(t) == th[t].pc = "S396"

\* C14: with the staggered start start_at = (group * thread_stride) mod ni the
\* update loop leaves in every accumulator cell the value that the loop
\* started at input 0 leaves there.
C14_StaggerKeepsValues ==
    \A t \in Threads :
        LoopLeft(t) =>
            \A i \in 0 .. (th[t].ni - 1) :
                w_updates[th[t].l][i * th[t].w_stride + t] = UnstaggeredCell(t, i)

C14_Witness ==
    \E t \in Threads :
        /\ LoopLeft(t)
        /\ start_at(th[t].ni) > 1
        /\ \E i \in 0 .. (th[t].ni - 1) : UnstaggeredCell(t, i) # 0
        /\ \A i \in 0 .. (th[t].ni - 1) :
               w_updates[th[t].l][i * th[t].w_stride + t] = UnstaggeredCell(t, i)

(***************************************************************************)
(* The scratch cells in the backward pass                                  *)
(***************************************************************************)
\* C15: in the backward pass no scratch cell is written by one thread while
\* a different thread reads or writes it between the same two barriers: the
\* delta broadcast, the error summation over all outputs and the overwrite
\* with the new errors are separated by barriers.
C15_BackwardScratchSeparated ==
    ForwardDone =>
        \A w \in sh_writes : \A a \in sh_reads \cup sh_writes :
            a[2] = w[2] => a[1] = w[1]

\* A thread has stored its new error while another, which read that cell
\* before the last barrier, has its own still to store.
C15_Witness ==
    \E t \in Threads : \E u \in Threads :
        /\ t # u
        /\ th[t].pc = "S355" /\ th[t].l > 0
        /\ th[u].pc = "S350" /\ u < th[u].ni /\ t < th[u].no
        /\ \E k \in CellsOf(t) : <<t, k>> \in sh_writes

(***************************************************************************)
(* The chunks of the groups                                                *)
(***************************************************************************)
\* The examples of group g: from example_num_base up to last_example.
Chunk(g) == ExampleNumBase(g) .. (LastExample(g) - 1)

\* C16: with grid size = ceil(batch_size / examples_per_block) and
\* batch_size >= 1, the chunks of the groups of the grid are all non-empty,
\* pairwise disjoint and together cover exactly the examples below
\* batch_size; a started group holds its chunk's end in last_example.
C16_ChunksPartitionBatch ==
    /\ \A g \in Groups : Chunk(g) # {}
    /\ \A g \in Groups : \A h \in Groups : g # h => Chunk(g) \cap Chunk(h) = {}
    /\ UNION {Chunk(g) : g \in Groups} = 0 .. (total_num_examples - 1)
    /\ \A g \in Groups : lpc[g] # "start" => last_example[g] = LastExample(g)

\* Several groups, the last with a partial chunk, all started.
C16_Witness ==
    /\ grid_size >= 3
    /\ total_num_examples % examples_per_block # 0
    /\ \A g \in Groups : lpc[g] # "start"
    /\ Cardinality(Chunk(grid_size - 1)) < examples_per_block

(***************************************************************************)
(* The device memory around the activation log                             *)
(***************************************************************************)
\* Line 1549: the floats of the activation log of Context c.
LogSize(c) == plans[contexts[c].plan].total_neurons * contexts[c].grid * 4

\* Lines 1150-1153, 1274-1307, 241: one past the last log cell that the first
\* call of group g writes.  The call takes 8, 4 or 1 examples by the loop
\* conditions as written; example x of group g logs at
\* (g + x) * total_neurons + offset, the offsets being those of the outputs.
LogEnd(c, g) ==
    LET P == plans[contexts[c].plan]
        base == UMul(g, NumExamplesPerInvocation)
        last == UMin(contexts[c].num_feature_vectors,
                     UAdd(base, NumExamplesPerInvocation))
        N == IF ULess(base, USub(last, 7)) THEN 8
             ELSE IF ULess(base, USub(last, 3)) THEN 4 ELSE 1
    IN  (g + N - 1) * P.total_neurons + (P.total_neurons - P.architecture[1])

\* A group of the running kernel stores an activation past the end of its
\* log.  What lies there is not the program's choice: among the outcomes
\* are the first weight and the first bias of a Plan (another is memory
\* that nothing reads, which leaves the state as it is).
LogOverrun(c, g) ==
    /\ Running(c)
    /\ g \in DOMAIN contexts[c].progress
    /\ LogEnd(c, g) > LogSize(c)
    /\ \E p \in DOMAIN plans :
           \/ plans' = [plans EXCEPT ![p].d_weights[0] = 0]
           \/ plans' = [plans EXCEPT ![p].d_biases[0] = 0]
    /\ UNCHANGED <<weights_tex, biases_tex, contexts, dev_error, event>>
    /\ UNCHANGED <<launchVars, kernelVars>>

NextDevice ==
    \/ NextHost
    \/ \E c \in DOMAIN contexts : \E g \in DOMAIN contexts[c].progress : LogOverrun(c, g)

SpecDevice == InitHost /\ [][NextDevice]_vars

ConstructionFailed(e) == e[1] = "plan" /\ e[4] # 0

\* C18: if an upload of a layer's weights or biases, or one of the two binds,
\* reports a device error, the construction stops there: the failing call
\* is the last one made, no texture is bound after it, and no Plan is
\* returned.
C18_FailedConstructionStops ==
    [][ConstructionFailed(event') =>
           /\ plans' = plans
           /\ event'[2] = 0
           /\ Len(event'[3]) = event'[4]
           /\ biases_tex' = biases_tex
           /\ (event'[3][event'[4]] # <<"bind", "biases_tex">>
                   => weights_tex' = weights_tex)]_vars

\* The first bind failed after every layer was uploaded, with a Plan
\* constructed before.
C18_Witness ==
    /\ ConstructionFailed(event)
    /\ event[2] = 0
    /\ event[3][event[4]] = <<"bind", "weights_tex">>
    /\ Len(plans) = 1
    /\ weights_tex = 1 /\ biases_tex = 1

(***************************************************************************)
(* Examples of weight zero, learning rate zero                             *)
(***************************************************************************)
\* Example x of the call counts: its example weight and the learning rate
\* are both non-zero.
Counts(x) == ExampleWeights(ExampleOf(x)) # 0 /\ learning_rate # 0

\* The updates of the batch summed over the examples that count only.
RECURSIVE CountedWeightUpdate(_, _, _)
CountedWeightUpdate(r, i, n) ==
    IF n = 0 THEN 0
    ELSE CountedWeightUpdate(r, i, n - 1)
         + (IF Counts(n - 1)
            THEN PrevOutput(r, n - 1, i) * ExampleWeights(ExampleOf(n - 1))
                 * learning_rate * r.d[n - 1]
            ELSE 0)
RECURSIVE CountedBiasUpdate(_, _)
CountedBiasUpdate(r, n) ==
    IF n = 0 THEN 0
    ELSE CountedBiasUpdate(r, n - 1)
         + (IF Counts(n - 1)
            THEN ExampleWeights(ExampleOf(n - 1)) * learning_rate * r.d[n - 1]
            ELSE 0)

\* Thread t has added its bias update and waits at the end of its layer.
BiasAdded(t) == th[t].pc = "B290" /\ t < th[t].no

\* C19: an example whose example weight is zero, and every example when the
\* learning rate is zero, adds exactly zero to every weight-gradient and
\* bias-gradient accumulator cell: the cells hold the updates of the other
\* examples alone, whatever the inputs, labels and weights.
C19_ZeroWeightAddsNothing ==
    \A t \in Threads :
        /\ LoopLeft(t) =>
               \A i \in 0 .. (th[t].ni - 1) :
                   w_updates[th[t].l][i * th[t].w_stride + t]
                       = atomic_add(0, CountedWeightUpdate(th[t], i, kcfg.N))
        /\ BiasAdded(t) =>
               b_updates[th[t].l][t] = atomic_add(0, CountedBiasUpdate(th[t], kcfg.N))

\* A batch of several examples, one of weight zero with a non-zero delta and
\* input, has left a non-zero update.
C19_Witness ==
    \E t \in Threads :
        /\ LoopLeft(t) /\ kcfg.zero = "weight" /\ kcfg.N > 1
        /\ \E x \in XS : \E i \in 0 .. (th[t].ni - 1) :
               ~Counts(x) /\ th[t].d[x] # 0 /\ PrevOutput(th[t], x, i) # 0
        /\ \E i \in 0 .. (th[t].ni - 1) :
               w_updates[th[t].l][i * th[t].w_stride + t] # 0

\* With a learning rate of zero nothing is ever added.
C19_ZeroRateWitness ==
    /\ kcfg.zero = "rate" /\ KernelDone
    /\ \E t \in Threads : th[t].d[0] # 0
    /\ \A l \in DOMAIN w_updates : \A c \in DOMAIN w_updates[l] : w_updates[l][c] = 0

(***************************************************************************)
(* The activation kinds                                                    *)
(***************************************************************************)
\* What thread t is about to hand to transform: line 243 on the path with
\* several threads per output, line 252 on the path with one.
ActivationInput(t) ==
    IF th[t].pc = "S237" THEN scratch[Cell(0, t)]
    ELSE th[t].accum[0] + LayerBiases(th[t], OutputOf(t, th[t]))

\* C20: applied with an activation kind other than tanh or identity, the
\* forward activation yields an error outcome, not a number.
C20_OtherKindIsAnError ==
    \A t \in Threads :
        (/\ th[t].pc \in {"S237", "S249"}
         /\ kcfg.activation \notin {"ACT_TANH", "ACT_IDENTITY"})
            => transform(ActivationInput(t), kcfg.activation) \notin Int

(***************************************************************************)
(* The backward delta                                                      *)
(***************************************************************************)
\* Thread t has computed the delta of its output (lines 304-315) and has not
\* yet gone on to overwrite its scratch cell, which still holds the error.
DeltaTaken(t) ==
    /\ th[t].pc = "B320" \/ (th[t].pc = "S355" /\ th[t].l = 0)
    /\ t < th[t].no

\* The output and the error that the delta of example x was computed from.
DeltaOutput(t, x) == LogRead(th[t].this_layer_outputs, x, t)
DeltaError(t, x) == scratch[Cell(x, t)]

\* C21: for the tanh kind the delta is (1 - output * output) * error: the
\* error itself where the output is 0, and 0 where the output is 1 or -1,
\* whatever the error.
C21_TanhDelta ==
    \A t \in Threads : \A x \in XS :
        (DeltaTaken(t) /\ kcfg.activation = "ACT_TANH") =>
            /\ th[t].d[x] = (1 - DeltaOutput(t, x) * DeltaOutput(t, x)) * DeltaError(t, x)
            /\ DeltaOutput(t, x) = 0 => th[t].d[x] = DeltaError(t, x)
            /\ DeltaOutput(t, x) \in {1, -1} => th[t].d[x] = 0

\* An output of 0 with a non-zero error.
C21_Witness ==
    \E t \in Threads : \E x \in XS :
        /\ DeltaTaken(t) /\ kcfg.activation = "ACT_TANH"
        /\ DeltaOutput(t, x) = 0 /\ DeltaError(t, x) # 0
        /\ th[t].d[x] = DeltaError(t, x)

\* A saturated output with a non-zero error.
C21_SaturatedWitness ==
    \E t \in Threads : \E x \in XS :
        /\ DeltaTaken(t) /\ kcfg.activation = "ACT_TANH"
        /\ DeltaOutput(t, x) \in {1, -1} /\ DeltaError(t, x) # 0
        /\ th[t].d[x] = 0

\* C22: for the identity kind the delta is output * error, not the error,
\* whatever the output and the error.
C22_IdentityDelta ==
    \A t \in Threads : \A x \in XS :
        (DeltaTaken(t) /\ kcfg.activation = "ACT_IDENTITY") =>
            th[t].d[x] = DeltaOutput(t, x) * DeltaError(t, x)

\* An output other than 1 with a non-zero error: the delta is not the error.
C22_Witness ==
    \E t \in Threads : \E x \in XS :
        /\ DeltaTaken(t) /\ kcfg.activation = "ACT_IDENTITY"
        /\ DeltaOutput(t, x) \notin {0, 1} /\ DeltaError(t, x) # 0
        /\ th[t].d[x] = DeltaOutput(t, x) * DeltaError(t, x)
        /\ th[t].d[x] # DeltaError(t, x)

(***************************************************************************)
(* The activation log of a launch                                          *)
(***************************************************************************)
\* Lines 1150, 240-241, 254: the log cells that a call of train_N_examples<N>
\* by group g touches in a Plan of this architecture.  The log pointer of
\* the group starts at block_num * total_neurons, example x of the call logs
\* at x * total_neurons from there, and the outputs of the layers follow
\* each other within the example.
LogRegion(arch, g, N) ==
    { g * PlanTotalNeurons(arch) + x * PlanTotalNeurons(arch) + c :
          x \in 0 .. (N - 1),
          c \in 0 .. (PlanTotalNeurons(arch) - arch[1] - 1) }

\* C23: within one launch the activation-log cells touched by two different
\* thread groups never overlap, for every batch size the launcher dispatches
\* and every grid size.
C23_LogRegionsPrivate ==
    \A arch \in Archs : \A c1 \in calls : \A c2 \in calls :
        c1[1] # c2[1] =>
            LogRegion(arch, c1[1], c1[2]) \cap LogRegion(arch, c2[1], c2[2]) = {}

(***************************************************************************)
(* The shared scratch of a group                                           *)
(***************************************************************************)
SizeofFloat == 4
SizeofDouble == 8

\* Lines 1445-1451: the bytes of shared memory requested for each group at
\* launch.
shared_mem_size(arch) ==
    LET shared_mem_stride == PlanMaxWidth(arch) * SizeofFloat
    IN  shared_mem_stride * 4 + 4 * SizeofDouble

\* Lines 153-156 (and every later scratch access, which uses the same form):
\* the scratch indices x * scratch_stride + tid of a call of
\* train_N_examples<N>, with scratch_stride = max_width and one thread per
\* unit of max_width.
ScratchIndices(arch, N) ==
    { x * PlanMaxWidth(arch) + tid :
          x \in 0 .. (N - 1), tid \in 0 .. (PlanMaxWidth(arch) - 1) }

\* C24: every shared-scratch index accessed by a call the launcher makes
\* lies inside the shared memory requested at launch, for every batch size
\* that is dispatched.
C24_ScratchInsideAllocation ==
    \A arch \in Archs : \A c \in calls :
        \A k \in ScratchIndices(arch, c[2]) :
            (k + 1) * SizeofFloat <= shared_mem_size(arch)

\* The calls of at most four examples stay inside it.
C24_InsideUpToFour ==
    \A arch \in Archs : \A c \in calls :
        c[2] <= 4 =>
            \A k \in ScratchIndices(arch, c[2]) :
                (k + 1) * SizeofFloat <= shared_mem_size(arch)

C24_Witness == \E c \in calls : c[2] = 4

(***************************************************************************)
(* The threads of one output in the forward pass                           *)
(***************************************************************************)
\* The threads mapped to the same output as thread t.
SameOutput(t, r) == {u \in Threads : OutputOf(u, r) = OutputOf(t, r)}

\* The input indices idx, idx + o_threads, ... below ni of thread u.
InputSubset(u, r) ==
    {i \in 0 .. (r.ni - 1) :
        i >= IdxOf(u, r) /\ (i - IdxOf(u, r)) % o_threads(u, r) = 0}

\* The products weight[i, o] * input[i] of the first n inputs that fall to
\* thread t, summed for example x.
RECURSIVE SubsetDot(_, _, _, _)
SubsetDot(t, r, x, n) ==
    IF n = 0 THEN 0
    ELSE SubsetDot(t, r, x, n - 1)
         + (IF (n - 1) \in InputSubset(t, r)
            THEN LayerWeights(r, (n - 1) * r.w_stride + OutputOf(t, r))
                 * scratch[Cell(x, n - 1)]
            ELSE 0)

\* A thread is in the forward step of a layer: its layer fields are set.
InLayer(t) == th[t].pc \in {"S213", "B221", "S223", "B228", "S232", "B232", "S237", "S249"}

\* C25: in every forward layer the threads mapped to output o have the
\* sub-lane indices 0 .. o_threads-1 with o_threads = W/no + (o < W mod no),
\* their strided input subsets are pairwise disjoint and cover 0 .. ni-1,
\* and a thread accumulates exactly the products of its subset.
C25_ThreadsPartitionInputs ==
    \A t \in Threads :
        InLayer(t) =>
            LET r == th[t] IN
            /\ r.no <= max_width
            /\ o_threads(t, r)
                   = (max_width \div r.no)
                     + (IF OutputOf(t, r) < max_width % r.no THEN 1 ELSE 0)
            /\ {IdxOf(u, r) : u \in SameOutput(t, r)} = 0 .. (o_threads(t, r) - 1)
            /\ \A u \in SameOutput(t, r) : \A v \in SameOutput(t, r) :
                   u # v => InputSubset(u, r) \cap InputSubset(v, r) = {}
            /\ UNION {InputSubset(u, r) : u \in SameOutput(t, r)} = 0 .. (r.ni - 1)
            /\ r.pc = "S213" => r.i \in InputSubset(t, r)
            /\ r.pc = "B221" =>
                   \A x \in XS : r.accum[x] = SubsetDot(t, r, x, r.ni)

\* A thread with a sub-lane index above 0, in a layer whose outputs do not
\* all have the same number of threads, has accumulated a non-zero sum.
C25_Witness ==
    \E t \in Threads :
        /\ th[t].pc = "B221"
        /\ left_over(th[t]) > 0
        /\ IdxOf(t, th[t]) > 0
        /\ InputSubset(t, th[t]) # {}
        /\ \E x \in XS : th[t].accum[x] # 0

(***************************************************************************)
(* The serialized accumulation of the forward pass                         *)
(***************************************************************************)
\* The partial sums of the threads below n that work on output o, summed
\* for example x.
RECURSIVE LaneSum(_, _, _, _)
LaneSum(o, r, x, n) ==
    IF n = 0 THEN 0
    ELSE LaneSum(o, r, x, n - 1)
         + (IF OutputOf(n - 1, r) = o THEN th[n - 1].accum[x] ELSE 0)

\* Thread t has written a scratch cell since the last barrier.
HasWritten(t) == \E w \in sh_writes : w[1] = t

InRound(t) == th[t].pc \in {"S232", "B232"}

\* C26: on the multi-thread-per-output path the bias of each output is
\* stored in its scratch cell once, before the first round; every thread
\* adds its partial sum in exactly one round, the one whose number is its
\* sub-lane index, which is below max_threads; and within one round no two
\* threads write the same scratch cell.
C26_RoundsSerializeAdds ==
    \A t \in Threads :
        LET r == th[t] IN
        /\ r.pc = "B228" =>
               IF t < r.no
               THEN /\ \A x \in XS : scratch[Cell(x, t)] = LayerBiases(r, t)
                    /\ \A w \in sh_writes :
                           w[2] \in CellsOf(t) => w[1] = t
                    /\ \A k \in CellsOf(t) : <<t, k>> \in sh_writes
               ELSE ~HasWritten(t)
        /\ InRound(t) =>
               /\ IdxOf(t, r) < max_threads(r)
               /\ r.i < max_threads(r)
               /\ \A w \in sh_writes : \A v \in sh_writes :
                      w[2] = v[2] => w[1] = v[1]
               /\ \A w \in sh_writes :
                      w[1] = t => r.i = IdxOf(t, r) /\ w[2] \in CellsOf(OutputOf(t, r))
               /\ r.pc = "B232" =>
                      (r.i = IdxOf(t, r) <=> HasWritten(t))
        /\ (r.pc = "S237" /\ t < r.no) =>
               \A x \in XS :
                   scratch[Cell(x, t)]
                       = LayerBiases(r, t) + LaneSum(t, r, x, max_width)

\* Two threads of one output have each added a non-zero partial sum.
C26_Witness ==
    \E t \in Threads :
        /\ th[t].pc = "S237" /\ t < th[t].no
        /\ \E u \in SameOutput(t, th[t]) : \E v \in SameOutput(t, th[t]) :
               /\ u # v
               /\ \E x \in XS : th[u].accum[x] # 0 /\ th[v].accum[x] # 0

(***************************************************************************)
(* The layer cursors of the routine                                        *)
(***************************************************************************)
\* A thread is in the forward step of layer th[t].l, the barrier that ends
\* the layer included.
InForwardLayer(t) == InLayer(t) \/ th[t].pc = "B170"

\* A thread is in the backward step of layer th[t].l, the barrier that ends
\* the layer included.
InBackwardLayer(t) ==
    th[t].pc \in {"S306", "B320", "S325", "B329", "S334", "B348", "S350",
                  "S355", "S372", "S396", "B290"}

\* C27: when the forward or the backward pass processes layer l, the offset
\* of the weight accessor is the sum over k < l of
\* architecture[k]*w_strides[k] and the cursor of the activation log is the
\* sum over k < l of architecture[k+1]; these are the offsets at which the
\* Plan uploaded the weights of layer l, and in the forward pass the bias
\* offset is the Plan's bias upload offset: advancing forward and
\* retreating backward round-trips.
C27_CursorsFollowUploadOffsets ==
    \A t \in Threads :
        LET r == th[t] IN
        /\ (InForwardLayer(t) \/ InBackwardLayer(t)) =>
               /\ r.l \in 0 .. (num_layers - 1)
               /\ r.layer_weights = WeightsOffset(r.l)
               /\ r.layer_weights
                      = weights_start_offset(kcfg.architecture, kcfg.w_strides, r.l)
               /\ r.this_layer_outputs = OutputsOffset(r.l)
        /\ InForwardLayer(t) =>
               /\ r.layer_biases = BiasesOffset(r.l)
               /\ r.layer_biases = bias_start_offset(kcfg.architecture, r.l)

\* A thread is back in the backward step of layer 0 of a network of two
\* layers whose strides are wider than the layers.
C27_Witness ==
    \E t \in Threads :
        /\ InBackwardLayer(t) /\ th[t].l = 0
        /\ num_layers = 2
        /\ w_strides(0) > architecture(1)
        /\ th[t].layer_weights = 0 /\ th[t].this_layer_outputs = 0

\* A thread is in the forward step of the second layer.
C27_ForwardWitness ==
    \E t \in Threads :
        /\ InForwardLayer(t) /\ th[t].l = 1
        /\ th[t].layer_weights = architecture(0) * w_strides(0)
        /\ th[t].layer_biases = architecture(1)

(***************************************************************************)
(* The atomic adds of one call                                             *)
(***************************************************************************)
\* The input indices that the update loop of a thread has visited when its
\* loop variable is i_.
Visited(i_, ni) == {RealIndex(j, ni) : j \in start_at(ni) .. (i_ - 1)}

\* The accumulator cells of the thread's layer hold one add for the visited
\* inputs and nothing for the others.
OneAddPerVisited(t, i_) ==
    LET r == th[t] IN
    /\ Visited(i_, r.ni) \subseteq 0 .. (r.ni - 1)
    /\ Cardinality(Visited(i_, r.ni)) = i_ - start_at(r.ni)
    /\ \A i \in 0 .. (r.ni - 1) :
           w_updates[r.l][i * r.w_stride + t]
               = IF i \in Visited(i_, r.ni) THEN UnstaggeredCell(t, i) ELSE 0

\* The state part of C28, for one thread.
AddsByPosition(t) ==
    LET r == th[t] IN
    /\ r.pc = "S372" =>
           /\ t < r.no
           /\ start_at(r.ni) \in 0 .. (r.ni - 1)
           /\ r.i \in start_at(r.ni) .. (r.ni + start_at(r.ni) - 1)
           /\ OneAddPerVisited(t, r.i)
           /\ b_updates[r.l][t] = 0
    /\ r.pc = "S396" =>
           /\ t < r.no
           /\ Visited(r.ni + start_at(r.ni), r.ni) = 0 .. (r.ni - 1)
           /\ OneAddPerVisited(t, r.ni + start_at(r.ni))
           /\ b_updates[r.l][t] = 0
    /\ (r.pc = "B290" /\ t < r.no) =>
           /\ OneAddPerVisited(t, r.ni + start_at(r.ni))
           /\ b_updates[r.l][t] = atomic_add(0, BiasUpdate(r, kcfg.N))

\* The step part of C28: an accumulator cell changes only in the step of
\* its own thread that adds to it, and it was untouched before.
AddsByOwnThread ==
    /\ \A l \in DOMAIN w_updates : \A c \in DOMAIN w_updates[l] :
           w_updates'[l][c] # w_updates[l][c] =>
               \E t \in Threads :
                   /\ th[t].pc = "S372" /\ th'[t] # th[t]
                   /\ th[t].l = l /\ t < th[t].no
                   /\ c = RealIndex(th[t].i, th[t].ni) * th[t].w_stride + t
                   /\ RealIndex(th[t].i, th[t].ni) \notin Visited(th[t].i, th[t].ni)
                   /\ w_updates[l][c] = 0
    /\ \A l \in DOMAIN b_updates : \A c \in DOMAIN b_updates[l] :
           b_updates'[l][c] # b_updates[l][c] =>
               /\ th[c].pc = "S396" /\ th'[c] # th[c]
               /\ th[c].l = l /\ c < th[c].no
               /\ b_updates[l][c] = 0

\* C28: in one call of the routine by one group, for every layer each
\* weight-accumulator cell [i*w_stride + o] with i < ni and o < no receives
\* exactly one atomic add, from thread o, and each bias-accumulator cell [o]
\* exactly one; the staggered loop visits every input index below ni exactly
\* once for every start offset, and the start offset lies in 0 .. ni-1.
C28_OneAddPerCell ==
    /\ [](\A t \in Threads : AddsByPosition(t))
    /\ [][AddsByOwnThread]_vars

\* A thread whose loop started above input 0 has made its adds, all of them
\* non-zero, to the weight cells of two inputs and to its bias cell.
C28_Witness ==
    \E t \in Threads :
        /\ th[t].pc = "B290" /\ t < th[t].no
        /\ start_at(th[t].ni) > 0
        /\ th[t].ni > 1
        /\ \A i \in 0 .. (th[t].ni - 1) :
               w_updates[th[t].l][i * th[t].w_stride + t] # 0
        /\ b_updates[th[t].l][t] # 0

(***************************************************************************)
(* The order of the layers within a group                                  *)
(***************************************************************************)
\* How far a thread is in its call: 0 while it loads the inputs, 1 + l in
\* the forward step of layer l, 1 + L between the forward and the backward
\* loop, 2 + L + (L - 1 - l) in the backward step of layer l, 2 + 2L when
\* it has returned.
Progress(t) ==
    IF th[t].pc \in {"S155", "B160"} THEN 0
    ELSE IF InForwardLayer(t) THEN 1 + th[t].l
    ELSE IF th[t].pc \in {"S267", "B275", "S277", "B285"} THEN 1 + num_layers
    ELSE IF InBackwardLayer(t) THEN 2 + num_layers + ((num_layers - 1) - th[t].l)
    ELSE 2 + 2 * num_layers

\* All threads of the group wait at the barrier that ends stage p.
AllFinished(p) ==
    \A u \in Threads : th[u].pc \in BarrierSites /\ Progress(u) = p

\* No thread is in a later stage of the call than another.
SameStage == \A t \in Threads : \A u \in Threads : Progress(t) = Progress(u)

\* A thread enters a stage only from the stage before it, in a step before
\* which every thread waited at the barrier ending that stage; the stages
\* follow each other as forward layers 0 .. L-1, then backward layers
\* L-1 .. 0; and the group enters the next call only when every thread has
\* returned from the last one.
StagesInOrder ==
    /\ \A t \in Threads :
           (kcfg' = kcfg /\ Progress(t)' # Progress(t)) =>
               /\ Progress(t)' = Progress(t) + 1
               /\ AllFinished(Progress(t))
               /\ InBackwardLayer(t)' =>
                      th'[t].l = IF InBackwardLayer(t) THEN th[t].l - 1
                                 ELSE num_layers - 1
               /\ InForwardLayer(t)' =>
                      th'[t].l = IF InForwardLayer(t) THEN th[t].l + 1 ELSE 0
               /\ th'[t].pc = "done" => InBackwardLayer(t) /\ th[t].l = 0
    /\ kcfg' # kcfg =>
           \A t \in Threads : th[t].pc = "done" /\ th'[t].pc = "S155"

\* C29: within a group no thread starts the forward step of layer l+1
\* before all threads have finished layer l, none starts the backward pass
\* before all have finished the last forward layer, the backward layers are
\* processed from L-1 down to 0 with a barrier between consecutive layers,
\* and no thread starts the next call of the launcher before all threads
\* have finished the backward step of layer 0 of the previous call.
C29_LayersInLockstep ==
    /\ []SameStage
    /\ [][StagesInOrder]_vars

\* In the second call of the launcher, a thread that left layer 1 early
\* (it is beyond the layer's outputs) is in the backward step of layer 0.
C29_Witness ==
    \E t \in Threads :
        /\ kcfg.example_num > 0
        /\ num_layers = 2
        /\ InBackwardLayer(t) /\ th[t].l = 0
        /\ t >= architecture(2)

(***************************************************************************)
(* The errors handed to the layer below                                    *)
(***************************************************************************)
\* The sum over the outputs o < n of delta[o] * weight[t*w_stride + o], the
\* deltas being those the threads of the outputs hold.
RECURSIVE BackSum(_, _, _, _)
BackSum(r, t, x, n) ==
    IF n = 0 THEN 0
    ELSE BackSum(r, t, x, n - 1)
         + th[n - 1].d[x] * LayerWeights(r, t * r.w_stride + (n - 1))

\* Thread t has stored its new error in the backward step of its layer.
ErrorsStored(t) ==
    th[t].pc \in {"S355", "S372", "S396", "B290"} /\ th[t].l > 0

\* C30: for every layer l > 0 and every example, after the backward step of
\* layer l the scratch cell of each thread t < ni holds the sum over o < no
\* of delta[o]*weight[t*w_stride + o] and the cell of each thread t >= ni
\* holds 0, and the layer below reads its error from that cell.
C30_ErrorsForLayerBelow ==
    \A t \in Threads : \A x \in XS :
        LET r == th[t] IN
        /\ ErrorsStored(t) =>
               scratch[Cell(x, t)]
                   = IF t < r.ni THEN BackSum(r, t, x, r.no) ELSE 0
        /\ (r.pc = "S306" /\ r.l < num_layers - 1) =>
               /\ scratch[Cell(x, t)] = r.total[x]
               /\ t >= r.no => scratch[Cell(x, t)] = 0

\* A thread below ni holds a non-zero error summed over two outputs whose
\* deltas are both non-zero.
C30_Witness ==
    \E t \in Threads : \E x \in XS :
        /\ ErrorsStored(t) /\ t < th[t].ni
        /\ th[t].no > 1
        /\ th[0].d[x] # 0 /\ th[1].d[x] # 0
        /\ LayerWeights(th[t], t * th[t].w_stride) # LayerWeights(th[t], t * th[t].w_stride + 1)
        /\ scratch[Cell(x, t)] # 0

\* A thread at or above ni holds 0 after the backward step of a layer l > 0.
C30_PaddingWitness ==
    \E t \in Threads : \E x \in XS :
        /\ ErrorsStored(t) /\ t >= th[t].ni
        /\ scratch[Cell(x, t)] = 0
        /\ \E u \in Threads : u < th[u].ni /\ scratch[Cell(x, u)] # 0

(***************************************************************************)
(* The bounds of the activation log                                        *)
(***************************************************************************)
\* C31: every activation-log index accessed by a group lies inside the
\* device log of total_neurons * grid_size * 4 floats, and the backward
\* pass never dereferences the log before the group's base: at layer 0 the
\* previous-layer values are read from the input vectors.
C31_LogAccessesInBounds ==
    \A c \in DOMAIN contexts : \A g \in DOMAIN contexts[c].progress :
        LogEnd(c, g) <= LogSize(c)

\* The calls of at most four examples stay inside the log of their launch.
C31_InBoundsUpToFour ==
    \A arch \in Archs : \A c \in calls :
        c[2] <= 4 =>
            \A k \in LogRegion(arch, c[1], c[2]) :
                k >= 0 /\ k < PlanTotalNeurons(arch) * grid_size * 4

\* Within a call the log is never read or written before the group's base:
\* the cursor of a layer is at or after the base, the outputs of the layer
\* below are read from the log only above layer 0, and at layer 0 they are
\* the inputs.
C31_BackwardStaysInLog ==
    \A t \in Threads :
        LET r == th[t] IN
        InBackwardLayer(t) =>
            /\ r.this_layer_outputs >= 0
            /\ r.l > 0 => r.this_layer_outputs - r.ni >= 0
            /\ r.l = 0 =>
                   /\ r.this_layer_outputs - r.ni < 0
                   /\ \A x \in XS : \A i \in 0 .. (r.ni - 1) :
                          PrevOutput(r, x, i) = Input(ExampleOf(x) * input_stride + i)

C31_BackwardWitness ==
    \E t \in Threads : th[t].pc = "S372" /\ th[t].l = 0 /\ num_layers = 2

(***************************************************************************)
(* The padding of the weight accumulators                                  *)
(***************************************************************************)
\* The padding cells of a Plan's weight accumulators: <<l, i * w_stride + o>>
\* for i < ni and no <= o < w_stride.
PaddingCells(P) ==
    UNION { {<<l, i * P.w_strides[l + 1] + o>> :
                i \in 0 .. (P.architecture[l + 1] - 1),
                o \in P.architecture[l + 2] .. (P.w_strides[l + 1] - 1)}
            : l \in Layers(P.architecture) }

\* C32: when the row stride of a layer exceeds its output width, the
\* padding cells of its weight accumulator are never written by the kernel
\* and remain zero, so after synchronize() the corresponding entries of the
\* caller's weight-gradient buffer are zero.
C32_PaddingStaysZero ==
    \A c \in DOMAIN contexts :
        \A cell \in PaddingCells(plans[contexts[c].plan]) :
            /\ contexts[c].d_weight_updates_storage[cell[1]][cell[2]] = 0
            /\ contexts[c].weight_updates[cell[1]][cell[2]] \in {CallerContent(c), 0}
            /\ event = <<"synchronize", c, "ok">> =>
                   contexts[c].weight_updates[cell[1]][cell[2]] = 0

\* synchronize() has copied a non-zero gradient and a zero padding cell of
\* the same layer to the caller's buffer, which held neither before.
C32_Witness ==
    \E c \in DOMAIN contexts :
        /\ event = <<"synchronize", c, "ok">>
        /\ CallerContent(c) # 0
        /\ \E cell \in PaddingCells(plans[contexts[c].plan]) :
               /\ contexts[c].weight_updates[cell[1]][cell[2]] = 0
               /\ \E k \in DOMAIN contexts[c].weight_updates[cell[1]] :
                      contexts[c].weight_updates[cell[1]][k] \notin {0, CallerContent(c)}

\* Within a call of the routine, the cells of the columns no .. w_stride-1
\* of every row of every layer's weight accumulator hold 0.
C32_KernelLeavesPadding ==
    \A l \in 0 .. (num_layers - 1) :
        \A i \in 0 .. (architecture(l) - 1) :
            \A o \in architecture(l + 1) .. (w_strides(l) - 1) :
                w_updates[l][i * w_strides(l) + o] = 0

\* A call has ended with a non-zero gradient next to a padding cell.
C32_KernelWitness ==
    /\ KernelDone
    /\ w_strides(0) > architecture(1)
    /\ w_updates[0][0] # 0

(***************************************************************************)
(* The width of the thread group                                           *)
(***************************************************************************)
\* Every thread has loaded its input and waits at the first barrier.
InputsLoaded == \A t \in Threads : th[t].pc = "B160"

\* C33: max_width is the maximum and total_neurons the sum of all L+1 layer
\* widths, so the group width W = max_width is at least ni and no of every
\* layer: every input neuron is loaded into scratch by some thread and
\* every output of every layer is assigned at least one thread.
C33_GroupWideEnough ==
    /\ \A l \in 0 .. num_layers : architecture(l) <= max_width
    /\ \E l \in 0 .. num_layers : architecture(l) = max_width
    /\ total_neurons = architecture(0) + OutputsOffset(num_layers)
    /\ Cardinality(Threads) = max_width
    /\ InputsLoaded =>
           \A x \in XS : \A i \in 0 .. (architecture(0) - 1) :
               /\ i \in Threads
               /\ scratch[Cell(x, i)] = Input(ExampleOf(x) * input_stride + i)
    /\ \A t \in Threads :
           InLayer(t) =>
               /\ th[t].ni <= max_width /\ th[t].no <= max_width
               /\ min_threads(th[t]) >= 1
               /\ \A o \in 0 .. (th[t].no - 1) :
                      \E u \in Threads : OutputOf(u, th[t]) = o

\* The input layer is the widest and strictly wider than an output layer:
\* all its neurons, the last one non-zero, are in scratch.
C33_Witness ==
    /\ InputsLoaded
    /\ architecture(0) = max_width
    /\ \E l \in 1 .. num_layers : architecture(l) < max_width
    /\ \E x \in XS : scratch[Cell(x, architecture(0) - 1)] # 0

\* A layer as wide as the group: one thread for each output.
C33_FullWidthWitness ==
    \E t \in Threads :
        InLayer(t) /\ th[t].no = max_width /\ th[t].ni < max_width

(***************************************************************************)
(* The error of the topmost layer                                          *)
(***************************************************************************)
\* Thread t has deposited its top-layer error and waits at the barrier of
\* line 285.
TopErrorStored(t) == th[t].pc = "B285"

\* The output of the topmost layer for output t of example x, as logged.
TopOutput(x, t) == LogRead(OutputsOffset(num_layers - 1), x, t)

\* C34: at the topmost layer, for each example whose label lies in
\* 0 .. no-1, the error deposited in scratch is fire - output for exactly
\* the one thread whose index equals the label, inhibit - output for every
\* other thread below no, and 0 for every thread at or above no.
C34_TopLayerError ==
    \A x \in XS :
        LET no == architecture(num_layers)
            label == Labels(ExampleOf(x))
        IN  label \in 0 .. (no - 1) =>
                /\ Cardinality({t \in Threads : t = label}) = 1
                /\ \A t \in Threads :
                       TopErrorStored(t) =>
                           scratch[Cell(x, t)]
                               = IF t >= no THEN 0
                                 ELSE IF t = label THEN fire - TopOutput(x, t)
                                 ELSE inhibit - TopOutput(x, t)

\* All the threads have deposited their errors for a top layer of two
\* outputs in a wider group: one holds fire - output, another
\* inhibit - output, and a thread beyond the outputs holds 0.
C34_Witness ==
    /\ \A t \in Threads : TopErrorStored(t)
    /\ architecture(num_layers) = 2 /\ max_width = 3
    /\ \E x \in XS :
           LET label == Labels(ExampleOf(x)) IN
           /\ scratch[Cell(x, label)] = fire - TopOutput(x, label)
           /\ scratch[Cell(x, 1 - label)] = inhibit - TopOutput(x, 1 - label)
           /\ scratch[Cell(x, label)] # scratch[Cell(x, 1 - label)]
           /\ scratch[Cell(x, 2)] = 0

(***************************************************************************)
(* The caller's correct, total and rms_error                               *)
(***************************************************************************)
\* C35: the caller's correct, total and rms_error passed to run_batch are
\* never written by the construction of the Context, by execute() or by
\* synchronize(): they hold what the caller left in them after any sequence
\* of these operations.
C35_TotalsNeverWritten ==
    \A c \in DOMAIN contexts :
        /\ contexts[c].correct = CallerContent(c)
        /\ contexts[c].total = CallerContent(c)
        /\ contexts[c].rms_error = CallerContent(c)

\* synchronize() has returned without error and has copied a gradient to
\* the caller's buffer, and the three values are as the caller left them.
C35_Witness ==
    \E c \in DOMAIN contexts :
        /\ event = <<"synchronize", c, "ok">>
        /\ \E l \in DOMAIN contexts[c].weight_updates :
               \E k \in DOMAIN contexts[c].weight_updates[l] :
                   contexts[c].weight_updates[l][k] \notin {0, CallerContent(c)}
        /\ contexts[c].correct = CallerContent(c)
        /\ contexts[c].total = CallerContent(c)
        /\ contexts[c].rms_error = CallerContent(c)
        /\ CallerContent(c) # 0

=============================================================================
